---- MODULE Spec2Model ----
(***************************************************************************)
(* FFT Analyzer (src/app.py): the saved-results registry, the two pin      *)
(* boards (single spectrum plot and combined/overlay plot), the point      *)
(* locator used by hover and click, and the peak detector.                 *)
(*                                                                         *)
(* Conventions.                                                            *)
(*  - Python lists and numpy arrays are TLA+ sequences; Python index k is  *)
(*    position k+1.  A pin index returned by the find_* operators is the   *)
(*    1-based position, and 0 stands for Python's None.                    *)
(*  - An optional object (an attribute that may be absent, a marker that   *)
(*    may be None) is a sequence of length 0 or 1.                         *)
(*  - Frequencies are integers in Hz; amplitudes are integers in a fixed   *)
(*    small unit.  Every comparison the code makes with a fractional       *)
(*    factor (0.02, 0.05, a relative threshold) is made here on both       *)
(*    sides multiplied by the denominator, so no rounding is introduced.   *)
(*  - numpy arrays are never written in place by the program (every        *)
(*    handler builds new arrays), so arrays are modelled by value.         *)
(***************************************************************************)
EXTENDS Integers, Sequences, FiniteSets, TLC

(***************************************************************************)
(* Bounds of the model                                                     *)
(***************************************************************************)
\* pins that a pin list may hold before further left-clicks are left out
MaxPins == 2
\* number of save_to_results calls explored (one more in SpecRegistry)
MaxSaves == 2
\* the peak detector is run on amplitude arrays of at most MaxBins bins
MaxBins == 7
\* ... with min_distance in 1..MaxDistance and window_size in 1..MaxWindow
MaxDistance == 3
MaxWindow == 2

(***************************************************************************)
(* Program constants                                                       *)
(***************************************************************************)
\* locator tolerance 0.02 of the frequency span, as a percentage
HoverTolPct == 2
\* pin x tolerance 0.02 of the visible x range, as a percentage
PinXTolPct == 2
\* pin y tolerance 0.05 of the visible y range, as a percentage
PinYTolPct == 5
\* mouse buttons of a button_press_event
LeftButton == 1
RightButton == 3
\* number of entries of original_default_colors
PaletteLen == 6

(***************************************************************************)
(* Arithmetic helpers                                                      *)
(***************************************************************************)
Abs(v) == IF v < 0 THEN -v ELSE v

\* np.log10 on the positive amplitudes of the model, which are powers of ten
RECURSIVE Log10(_)
Log10(v) == IF v < 10 THEN 0 ELSE 1 + Log10(v \div 10)

\* list.pop(index): the list without the element at that position
RemoveAt(s, i) == [k \in 1..(Len(s) - 1) |-> IF k < i THEN s[k] ELSE s[k + 1]]

RECURSIVE SumSeq(_)
SumSeq(s) == IF s = <<>> THEN 0 ELSE Head(s) + SumSeq(Tail(s))

\* np.max of a non-empty array
RECURSIVE MaxSeq(_)
MaxSeq(s) == IF Len(s) = 1 THEN s[1]
             ELSE LET m == MaxSeq(Tail(s)) IN IF s[1] > m THEN s[1] ELSE m

\* amplitude[k] for a Python index k: 0-based, a negative index counts from the end
At(a, k) == IF k >= 0 THEN a[k + 1] ELSE a[Len(a) + k + 1]

\* amplitude[start:]
SliceFrom(a, start) == [k \in 1..(IF Len(a) > start THEN Len(a) - start ELSE 0) |-> a[k + start]]

(***************************************************************************)
(* detect_peaks_advanced (src/app.py 1348-1398)                            *)
(*                                                                         *)
(* A settings record s holds what the handler reads from the settings      *)
(* widgets: mode (threshold_mode_var), relpct (relative_threshold_var as   *)
(* a percentage), absthr (absolute_threshold_var in amplitude units),      *)
(* statk10 (statistical_factor_var in tenths), min_distance, window_size,  *)
(* skip_dc and peak_count (peak_count_var, read by run_fft_analysis).      *)
(***************************************************************************)
\* start_idx = 1 if skip_dc else 0
StartIdx(s) == IF s.skip_dc THEN 1 ELSE 0

\* np.max(amplitude) raises ValueError on an empty array (relative mode only)
DetectRaises(a, s) == s.mode = "relative" /\ Len(a) = 0

\* amplitude[i] > threshold, the threshold computed as the code computes it:
\*   relative:    np.max(amplitude) * relative_threshold   (over ALL bins)
\*   absolute:    absolute_threshold
\*   statistical: np.mean(amplitude[start:]) + factor * np.std(amplitude[start:])
\*   otherwise:   0
\* The statistical comparison v > S/n + (k/10) * sqrt(n*Q - S*S)/n is decided
\* exactly by squaring: with X = n*v - S and V = n*Q - S*S it is 10*X > k*sqrt(V).
AboveThreshold(a, i, s) ==
    LET v == At(a, i)
    IN CASE s.mode = "relative" -> 100 * v > MaxSeq(a) * s.relpct
         [] s.mode = "absolute" -> v > s.absthr
         [] s.mode = "statistical" ->
              LET t == SliceFrom(a, StartIdx(s))
                  n == Len(t)
                  S == SumSeq(t)
                  Q == SumSeq([k \in 1..n |-> t[k] * t[k]])
                  X == n * v - S
                  V == n * Q - S * S
              IN IF s.statk10 >= 0
                 THEN X > 0 /\ 100 * X * X > s.statk10 * s.statk10 * V
                 ELSE X >= 0 \/ 100 * X * X < s.statk10 * s.statk10 * V
         [] OTHER -> v > 0

\* a maximum test that lets ties pass
IsPlateauMaximum(a, i, w) == \A j \in (0 - w)..w : j # 0 => At(a, i) >= At(a, i + j)

\* is_maximum: amplitude[i] > amplitude[i + j] for every j in [-w, w], j # 0
IsMaximum(a, i, w) == \A j \in (0 - w)..w : j # 0 => At(a, i) > At(a, i + j)

\* position in peaks_idx of the first existing peak with abs(i - peak) < min_distance,
\* 0 when the inner loop finds none
FirstClose(peaks, i, d) ==
    LET close == {k \in 1..Len(peaks) : Abs(i - peaks[k]) < d}
    IN IF close = {} THEN 0 ELSE CHOOSE k \in close : \A m \in close : k <= m

\* a detector without the minimum-distance merge: every accepted candidate is kept
AppendPeak(peaks, a, i, d) == Append(peaks, i)

\* a merge that never gives up an accepted peak: a candidate close to one is dropped
KeepEarlierPeak(peaks, a, i, d) ==
    IF FirstClose(peaks, i, d) = 0 THEN Append(peaks, i) ELSE peaks

\* a merge that gives up the oldest accepted peak for a higher candidate
DropOldestPeak(peaks, a, i, d) ==
    LET k == FirstClose(peaks, i, d)
    IN IF k = 0 THEN Append(peaks, i)
       ELSE IF At(a, i) > At(a, peaks[k]) THEN Append(RemoveAt(peaks, 1), i)
       ELSE peaks

\* lines 1384-1396: the minimum-distance merge of an accepted candidate i
MergePeak(peaks, a, i, d) ==
    LET k == FirstClose(peaks, i, d)
    IN IF k = 0 THEN Append(peaks, i)
       ELSE IF At(a, i) > At(a, peaks[k]) THEN Append(RemoveAt(peaks, k), i)
       ELSE peaks

\* one iteration of the outer loop (lines 1374-1396) for index i
ScanStep(peaks, a, i, s) ==
    IF IsMaximum(a, i, s.window_size) /\ AboveThreshold(a, i, s)
    THEN MergePeak(peaks, a, i, s.min_distance)
    ELSE peaks

\* a scan that starts at bin 0 whatever the settings
ScanWholeArray(s) == 0

\* range(start_idx + window_size, len(amplitude) - window_size)
ScanFirst(s) == StartIdx(s) + s.window_size
ScanEnd(a, s) == Len(a) - s.window_size

RECURSIVE ScanFrom(_, _, _, _)
ScanFrom(peaks, a, i, s) ==
    IF i >= ScanEnd(a, s) THEN peaks
    ELSE ScanFrom(ScanStep(peaks, a, i, s), a, i + 1, s)

\* the list detect_peaks_advanced returns (when it does not raise)
detect_peaks_advanced(a, s) == ScanFrom(<<>>, a, ScanFirst(s), s)

(***************************************************************************)
(* Input data of the model                                                 *)
(*                                                                         *)
(* A dataset d is what run_fft_analysis reads: the selected column of the  *)
(* loaded file (rows cells, those at the 0-based positions in nans being   *)
(* NaN), the start line and line count of the range widgets, the sampling  *)
(* frequency, and the display name.  As scipy's fft is a library, the      *)
(* windowed signal is given by its cosine amplitudes: a signal             *)
(*   x[t] = tones[1] + SUM_k tones[k+1] * cos(2*pi*k*t/n), 1 <= k < n/2    *)
(* of n samples has |fft(x)[0]| = n * tones[1] and                         *)
(* |fft(x)[k]| = n * tones[k+1] / 2.  The range widgets hold start_line    *)
(* >= 1 and n_lines >= 0.                                                  *)
(***************************************************************************)
Datasets ==
    { [name |-> "A", rows |-> 8, nans |-> {}, start_line |-> 1, n_lines |-> 8,
       freq_hz |-> 800, tones |-> <<5, 100, 0, 1>>],
      [name |-> "B", rows |-> 10, nans |-> {}, start_line |-> 1, n_lines |-> 10,
       freq_hz |-> 1010, tones |-> <<0, 100, 10, 0, 0>>],
      [name |-> "E", rows |-> 2, nans |-> {0, 1}, start_line |-> 1, n_lines |-> 2,
       freq_hz |-> 800, tones |-> <<>>] }

\* lines 1044-1045: start_idx = start_line - 1
RowStartIdx(d) == d.start_line - 1

\* line 1049: start_idx >= max_rows
StartExceeds(d) == RowStartIdx(d) >= d.rows

\* line 1054: end_idx > max_rows
RangeAdjusted(d) == RowStartIdx(d) + d.n_lines > d.rows

\* an end index that is not lowered to the number of rows
UnclampedEnd(d) == RowStartIdx(d) + d.n_lines

\* lines 1045 and 1054-1055: end_idx, lowered to max_rows when it exceeds it
RowEndIdx(d) == IF RangeAdjusted(d) THEN d.rows ELSE RowStartIdx(d) + d.n_lines

\* lines 1059-1060: the rows of iloc[start_idx:end_idx] that are not NaN
UsedRows(d) == {r \in RowStartIdx(d)..(RowEndIdx(d) - 1) : r \notin d.nans}

\* len(data)
DataLen(d) == Cardinality(UsedRows(d))

\* line 1040: window_func = self.window_var.get(); the combobox starts at
\* "none" (line 164), which is what a dataset naming no window was analysed with
WindowOf(d) == IF "window_func" \in DOMAIN d THEN d.window_func ELSE "none"

\* a window branch that tapers whatever the tag
AlwaysTapered(tag) == "hann"

\* lines 1067-1075: the weights the samples are multiplied with before fft: those
\* of the window named, or none at all (data is passed on as it is)
AppliedWindow(tag) == IF tag \in {"blackman", "hann", "hamming"} THEN tag ELSE "raw"

\* the cosine amplitudes of the sequence passed to fft at line 1078: of the
\* samples as they are (d.tones), or of the samples times the window
\* (d.tapered, given with the data as scipy's windows and fft are libraries; a
\* dataset that gives none is only told apart by its tag)
FftInputTones(d) ==
    IF AppliedWindow(WindowOf(d)) = "raw" \/ "tapered" \notin DOMAIN d THEN d.tones
    ELSE d.tapered[AppliedWindow(WindowOf(d))]

\* the cosine amplitude of bin k - 1 (0 beyond the tones given)
ToneAt(d, k) == IF k <= Len(FftInputTones(d)) THEN FftInputTones(d)[k] ELSE 0

\* np.abs(yf[:len(data)//2])
AbsFft(d) == [k \in 1..(DataLen(d) \div 2) |->
                IF k = 1 THEN DataLen(d) * ToneAt(d, 1)
                ELSE (DataLen(d) * ToneAt(d, k)) \div 2]

\* the frequencies of all len(data) bins, without the cut to the first half
FullSpectrum(d) == [k \in 1..DataLen(d) |-> ((k - 1) * d.freq_hz) \div DataLen(d)]

\* line 1080: xf = fftfreq(len(data), 1/freq_hz)[:len(data)//2], xf[k] = k*freq_hz/n
Frequencies(d) == [k \in 1..(DataLen(d) \div 2) |-> ((k - 1) * d.freq_hz) \div DataLen(d)]

\* amplitudes scaled by 1/len(data), the discarded mirror half not made up for
MirrorUncompensated(d) == [k \in 1..(DataLen(d) \div 2) |-> AbsFft(d)[k] \div DataLen(d)]

\* line 1081: amplitude = 2.0/len(data) * np.abs(yf[:len(data)//2])
Amplitudes(d) == [k \in 1..(DataLen(d) \div 2) |-> (2 * AbsFft(d)[k]) \div DataLen(d)]

\* original_default_colors (line 24)
Palette == <<"#0095ff", "#ff7f0e", "#22d322", "#ff0000", "#a94cff", "#8c564b">>

\* line 1088: self.current_colors[self.color_index % len(self.current_colors)]
ColorAt(idx) == Palette[(idx % PaletteLen) + 1]

\* settings the peak detector is run with by run_fft_analysis
PeakSettings ==
    { [peak_count |-> 0, mode |-> "relative", relpct |-> 10, absthr |-> 0, statk10 |-> 10,
       min_distance |-> 10, window_size |-> 3, skip_dc |-> TRUE],
      [peak_count |-> 1, mode |-> "relative", relpct |-> 10, absthr |-> 0, statk10 |-> 10,
       min_distance |-> 1, window_size |-> 1, skip_dc |-> TRUE] }

\* cursor positions (event.xdata, event.ydata) and what the axes report as limits
\* next to a bin of A and of B on either side, on a bin, between bins, and
\* half way between a bin of A and a bin of B
CursorXs == {94, 100, 106, 150, 201}
\* where the cursor hovers: near a bin, and between bins
HoverXs == {100, 150}
\* where the operator right-clicks: on a bin, next to it, and next to a second bin
UnpinXs == {100, 106, 201}
CursorYs == {0, 10, 100}
XLims == { <<90, 310>>, <<0, 300>> }
LogYLims == { <<1, 1000>>, <<10, 100>> }
LinearYLims == { <<0 - 5, 105>> }
MouseButtons == {1, 2, 3}

(***************************************************************************)
(* Point locator (on_hover / on_click and their combined variants)         *)
(***************************************************************************)
\* np.argmin(np.abs(frequencies - xdata)): the first position of the minimum
ArgMinDist(fr, x) ==
    CHOOSE k \in 1..Len(fr) :
        /\ \A m \in 1..Len(fr) : Abs(fr[k] - x) <= Abs(fr[m] - x)
        /\ \A m \in 1..(k - 1) : Abs(fr[m] - x) > Abs(fr[k] - x)

\* frequencies[-1] - frequencies[0]
Span(fr) == fr[Len(fr)] - fr[1]

\* line 649: abs(frequencies[freq_idx] - event.xdata) <= span * 0.02
WithinTol(fr, k, x) == 100 * Abs(fr[k] - x) <= HoverTolPct * Span(fr)

\* lines 808 and 888: distance < span * 0.02
WithinTolStrict(fr, k, x) == 100 * Abs(fr[k] - x) < HoverTolPct * Span(fr)

\* lines 640-654: the point a left click locates in the current analysis, <<>>
\* when there are fewer than 2 bins or the nearest bin is too far
LocateSingle(data, x) ==
    IF Len(data.frequencies) > 1
    THEN LET k == ArgMinDist(data.frequencies, x)
         IN IF WithinTol(data.frequencies, k, x)
            THEN << [frequency |-> data.frequencies[k], amplitude |-> data.amplitudes[k]] >>
            ELSE <<>>
    ELSE <<>>

\* lines 795-815 and 876-895: the loop over combined_data.items(); best is
\* <<>> while min_distance is still inf, else <<[dist, data]>>
RECURSIVE ClosestFrom(_, _, _, _)
ClosestFrom(cdata, pos, x, best) ==
    IF pos > Len(cdata) THEN best
    ELSE LET e == cdata[pos]
             fr == e.frequencies
         IN IF Len(fr) > 1
            THEN LET k == ArgMinDist(fr, x)
                     dist == Abs(fr[k] - x)
                 IN IF (best = <<>> \/ dist < best[1].dist) /\ WithinTolStrict(fr, k, x)
                    THEN ClosestFrom(cdata, pos + 1, x,
                           << [dist |-> dist,
                               data |-> [frequency |-> fr[k], amplitude |-> e.amplitudes[k],
                                         analysis_name |-> e.display_name, color |-> e.color]] >>)
                    ELSE ClosestFrom(cdata, pos + 1, x, best)
            ELSE ClosestFrom(cdata, pos + 1, x, best)

\* closest_data of on_combined_hover / on_combined_click: <<>> for None
LocateCombined(cdata, x) ==
    LET best == ClosestFrom(cdata, 1, x, <<>>)
    IN IF best = <<>> THEN <<>> ELSE << best[1].data >>

(***************************************************************************)
(* Pin lookup (find_clicked_pin 666-701, find_combined_clicked_pin 910-935)*)
(***************************************************************************)
\* np.log10 of an axis limit: finite for v > 0, -inf for 0, nan below 0
LogExt(v) == IF v > 0 THEN [k |-> "fin", v |-> Log10(v)]
             ELSE IF v = 0 THEN [k |-> "neginf", v |-> 0]
             ELSE [k |-> "nan", v |-> 0]

\* y_distance <= (np.log10(ylim[1]) - np.log10(ylim[0])) * 0.05 for a finite
\* y_distance yd >= 0, in IEEE arithmetic
WithinLogTol(yd, ylim) ==
    LET lo == LogExt(ylim[1])
        hi == LogExt(ylim[2])
    IN CASE lo.k = "fin" /\ hi.k = "fin" -> 100 * yd <= PinYTolPct * (hi.v - lo.v)
         [] lo.k = "neginf" /\ hi.k = "fin" -> TRUE
         [] OTHER -> FALSE

\* x_distance <= x_range * 0.02
WithinXTol(x_click, pin_x, xlim) == 100 * Abs(x_click - pin_x) <= PinXTolPct * (xlim[2] - xlim[1])

\* the test find_clicked_pin applies to one pin (lines 685-699)
PinMatches(px, py, x_click, y_click, xlim, ylim) ==
    IF y_click > 0 /\ py > 0
    THEN WithinXTol(x_click, px, xlim)
         /\ WithinLogTol(Abs(Log10(y_click) - Log10(py)), ylim)
    ELSE WithinXTol(x_click, px, xlim)
         /\ 100 * Abs(y_click - py) <= PinYTolPct * (ylim[2] - ylim[1])

\* the test find_combined_clicked_pin applies to one pin (lines 926-933)
CombinedPinMatches(px, py, x_click, y_click, xlim, ylim) ==
    /\ y_click > 0 /\ py > 0
    /\ WithinXTol(x_click, px, xlim)
    /\ WithinLogTol(Abs(Log10(y_click) - Log10(py)), ylim)

\* the loop "for i, pin in enumerate(...): if ...: return i": the smallest
\* position in hits, 0 (None) when hits is empty
FirstOf(hits) == IF hits = {} THEN 0 ELSE CHOOSE k \in hits : \A m \in hits : k <= m

find_clicked_pin(pins, cur, x_click, y_click, xlim, ylim) ==
    IF cur = <<>> THEN 0
    ELSE FirstOf({k \in 1..Len(pins) :
                    PinMatches(pins[k].frequency, pins[k].amplitude,
                               x_click, y_click, xlim, ylim)})

find_combined_clicked_pin(pins, x_click, y_click, xlim, ylim) ==
    FirstOf({k \in 1..Len(pins) :
               CombinedPinMatches(pins[k].data.frequency, pins[k].data.amplitude,
                                  x_click, y_click, xlim, ylim)})

\* the second title line update_pins_title / update_combined_pins_title write
PinsSuffix(n) ==
    IF n = 0 THEN [kind |-> "none", count |-> 0]
    ELSE IF n = 1 THEN [kind |-> "singular", count |-> 1]
    ELSE [kind |-> "plural", count |-> n]

(***************************************************************************)
(* State                                                                   *)
(***************************************************************************)
VARIABLES
    current_fft_data,               \* <<>> while the attribute does not exist, else <<dict>>
    fft_results,                    \* self.fft_results: result_id -> saved dict
    results_tree,                   \* rows of self.results_tree: [item, text]
    tree_serial,                    \* rows ever inserted (Tk never reuses an item id)
    color_index,                    \* self.color_index
    permanent_annotations,          \* pins of the single plot
    hover,                          \* transient marker shown on self.ax: <<>> or <<point>>
    ax_title,                       \* title of self.ax: [base, pins]
    ax_lines,                       \* curves drawn on self.ax
    peak_labels,                    \* bins annotated as peaks on self.ax
    combined_data,                  \* self.combined_data, in dict (insertion) order
    combined_permanent_annotations, \* pins of the combined plot
    combined_hover,                 \* transient marker shown on self.combined_ax
    combined_title,                 \* title of self.combined_ax
    combined_lines,                 \* curves drawn on self.combined_ax
    combined_yscale,                \* y scale of self.combined_ax: "linear" or "log"
    last,                           \* history: the handler that ran last, its outcome, and
                                    \* the length of the pin list of its plot when it began
    issued,                         \* history: the result ids save_to_results has issued
    scan,                           \* the loop state of detect_peaks_advanced
    settings                        \* self.settings: the in-memory settings dict

gui_vars == << current_fft_data, fft_results, results_tree, tree_serial, color_index,
               permanent_annotations, hover, ax_title, ax_lines, peak_labels,
               combined_data, combined_permanent_annotations, combined_hover,
               combined_title, combined_lines, combined_yscale, last, issued, settings >>

vars == << current_fft_data, fft_results, results_tree, tree_serial, color_index,
           permanent_annotations, hover, ax_title, ax_lines, peak_labels,
           combined_data, combined_permanent_annotations, combined_hover,
           combined_title, combined_lines, combined_yscale, last, issued, scan, settings >>

single_vars == << current_fft_data, permanent_annotations, hover, ax_title, ax_lines,
                  peak_labels >>
registry_vars == << fft_results, results_tree, tree_serial, color_index, issued >>
overlay_vars == << combined_data, combined_permanent_annotations, combined_hover,
                   combined_title, combined_lines, combined_yscale >>

\* the record kept in last; msgs (the message boxes shown, in order) and input
\* (what the handler read from the widgets and the file) are recorded for
\* run_fft_analysis
\* the calls of canvas.draw_idle() and canvas.draw() a handler makes on the
\* path that ends with outcome res
DrawCalls(op, res) ==
    IF op \in {"on_hover", "on_combined_hover"}
    THEN \* shown: hide_hover_info (line 588 -> 628) and then line 610, or 825 -> 867
         \* and then 849; hidden: lines 575 -> 628, or 820 -> 867; with fewer
         \* than 2 bins on_hover returns without a call
         IF res = "shown" THEN 2 ELSE IF res = "hidden" THEN 1 ELSE 0
    ELSE IF op \in {"on_leave", "on_combined_leave"}
    THEN 1      \* lines 788 -> 628, 1023 -> 867
    ELSE IF op \in {"on_click", "on_combined_click"}
    THEN \* lines 768, 722, 784 and 1003, 956, 1019; a rejected left click makes no call
         IF res \in {"pinned", "unpinned", "cleared"} THEN 1 ELSE 0
    ELSE IF op \in {"run_fft_analysis", "plot_combined_results", "clear_all_results"}
    THEN \* lines 1123, 1295, 1327, reached when nothing was raised before
         IF res = "ok" THEN 1 ELSE 0
    ELSE 0

Done(op, res, n) == [op |-> op, res |-> res, n |-> n, msgs |-> <<>>, input |-> <<>>,
                     draws |-> DrawCalls(op, res)]
RunDone(res, n, msgs, d, s) ==
    [op |-> "run_fft_analysis", res |-> res, n |-> n, msgs |-> msgs,
     input |-> << [d |-> d, s |-> s] >>, draws |-> DrawCalls("run_fft_analysis", res)]

\* self.settings as __init__ builds it (lines 29-42) when no settings file is
\* found; the absolute threshold 0.001 lies below one amplitude unit of the model
DefaultSettings ==
    [peak |-> [peak_count |-> 5, mode |-> "relative", relpct |-> 10, absthr |-> 0,
               statk10 |-> 10, min_distance |-> 10, window_size |-> 3, skip_dc |-> TRUE],
     pin_face_color |-> "yellow", pin_edge_color |-> "orange"]

IdleScan == [pc |-> "idle", amplitude |-> <<>>, i |-> 0, peaks_idx |-> <<>>,
             settings |-> CHOOSE s \in PeakSettings : s.peak_count = 0]

\* __init__, setup_plot_panel (203-211) and setup_results_tab (458-468)
GuiInit ==
    /\ current_fft_data = <<>>
    /\ fft_results = << >>
    /\ results_tree = <<>>
    /\ tree_serial = 0
    /\ color_index = 0
    /\ permanent_annotations = <<>>
    /\ hover = <<>>
    /\ ax_title = [base |-> <<"FFT Analysis Results">>, pins |-> PinsSuffix(0)]
    /\ ax_lines = <<>>
    /\ peak_labels = <<>>
    /\ combined_data = <<>>
    /\ combined_permanent_annotations = <<>>
    /\ combined_hover = <<>>
    /\ combined_title = [base |-> <<"Combined FFT Results">>, pins |-> PinsSuffix(0)]
    /\ combined_lines = <<>>
    /\ combined_yscale = "linear"
    /\ last = Done("init", "ok", 0)
    /\ issued = <<>>
    /\ settings = DefaultSettings

Init == GuiInit /\ scan = IdleScan

(***************************************************************************)
(* run_fft_analysis (1025-1144)                                            *)
(***************************************************************************)
\* lines 1106-1110: the detected peaks by amplitude, highest first (list.sort
\* is stable, so equal amplitudes keep their order), cut to peak_count
RECURSIVE SortByAmplitude(_, _)
SortByAmplitude(peaks, a) ==
    IF peaks = <<>> THEN <<>>
    ELSE LET k == CHOOSE k \in 1..Len(peaks) :
                    /\ \A m \in 1..Len(peaks) : At(a, peaks[k]) >= At(a, peaks[m])
                    /\ \A m \in 1..(k - 1) : At(a, peaks[m]) < At(a, peaks[k])
         IN <<peaks[k]>> \o SortByAmplitude(RemoveAt(peaks, k), a)

FirstN(s, n) == [k \in 1..(IF Len(s) < n THEN Len(s) ELSE n) |-> s[k]]

\* labels taken in detection order, without the sort
UnsortedLabels(a, s) == FirstN(detect_peaks_advanced(a, s), s.peak_count)

PeakLabels(a, s) == FirstN(SortByAmplitude(detect_peaks_advanced(a, s), a), s.peak_count)

\* the dict stored at lines 1126-1139
Analysis(d, color) ==
    [frequencies |-> Frequencies(d), amplitudes |-> Amplitudes(d),
     display_name |-> d.name, freq_hz |-> d.freq_hz, start_line |-> d.start_line,
     n_lines |-> DataLen(d), window_func |-> WindowOf(d), color |-> color]

\* xf[1:], amplitude[1:] as passed to semilogy (lines 1089 and 1276)
Curve(fr, am) == [x |-> SliceFrom(fr, 1), y |-> SliceFrom(am, 1)]

\* a re-render that forgot to clear the pin list
KeepPins(pins) == pins

\* line 1086: self.permanent_annotations.clear()
ClearPinsOnRun(pins) == <<>>

\* a registry holding the live dict itself (a save without .copy(), and a run
\* that updated the dict in place): the entries that were the live analysis
\* follow it
WriteThrough(results, old_cur, new_cur) ==
    [k \in DOMAIN results |->
        IF old_cur # <<>> /\ new_cur # <<>> /\ results[k] = old_cur[1]
        THEN new_cur[1] ELSE results[k]]

\* lines 1126-1139 bind self.current_fft_data to a NEW dict holding new arrays:
\* the dicts the registry holds (shallow copies of earlier dicts) are not written
SavedAfterRun(results, old_cur, new_cur) == results

\* lines 1054-1057: the warning shown when the range is adjusted
RangeWarning(d) == IF RangeAdjusted(d) THEN <<"showwarning">> ELSE <<>>

run_fft_analysis(d, s) ==
    IF StartExceeds(d)
    THEN \* lines 1049-1051: showerror, return
         /\ last' = RunDone("error", Len(permanent_annotations), <<"showerror">>, d, s)
         /\ UNCHANGED << single_vars, registry_vars, overlay_vars, scan, settings >>
    ELSE IF DataLen(d) = 0 \/ d.freq_hz = 0
    THEN \* lines 1062-1064 (showerror, return), or ZeroDivisionError at line 1079
         \* caught at line 1143 (showerror)
         /\ last' = RunDone("error", Len(permanent_annotations),
                            RangeWarning(d) \o <<"showerror">>, d, s)
         /\ UNCHANGED << single_vars, registry_vars, overlay_vars, scan, settings >>
    ELSE /\ permanent_annotations' = ClearPinsOnRun(permanent_annotations)
         /\ hover' = <<>>
         /\ ax_lines' = << Curve(Frequencies(d), Amplitudes(d)) >>
         /\ ax_title' = [base |-> <<"FFT Analysis:", d.name>>, pins |-> PinsSuffix(0)]
         /\ IF s.peak_count > 0 /\ DetectRaises(Amplitudes(d), s)
            THEN \* the exception is caught at line 1143 (showerror)
                 /\ peak_labels' = <<>>
                 /\ UNCHANGED current_fft_data
                 /\ last' = RunDone("failed", Len(permanent_annotations),
                                    RangeWarning(d) \o <<"showerror">>, d, s)
            ELSE /\ peak_labels' = IF s.peak_count > 0
                                   THEN PeakLabels(Amplitudes(d), s) ELSE <<>>
                 /\ current_fft_data' = << Analysis(d, ColorAt(color_index)) >>
                 /\ last' = RunDone("ok", Len(permanent_annotations),
                                    RangeWarning(d) \o <<"showinfo">>, d, s)
         /\ fft_results' = SavedAfterRun(fft_results, current_fft_data, current_fft_data')
         /\ UNCHANGED << results_tree, tree_serial, color_index, issued, overlay_vars, scan, settings >>

(***************************************************************************)
(* Single plot: hover, leave, click                                        *)
(***************************************************************************)
\* a hover test that turns away a cursor exactly at the tolerance
HoverTooFarAtEdge(fr, k, x) == 100 * Abs(fr[k] - x) >= HoverTolPct * Span(fr)

\* line 574: abs(frequencies[freq_idx] - event.xdata) > span * 0.02, on which
\* on_hover hides the marker and returns
HoverTooFar(fr, k, x) == 100 * Abs(fr[k] - x) > HoverTolPct * Span(fr)

\* lines 569-583: the point on_hover hands to show_hover_info, <<>> when it
\* hides the marker
LocateHover(data, x) ==
    LET k == ArgMinDist(data.frequencies, x)
    IN IF HoverTooFar(data.frequencies, k, x) THEN <<>>
       ELSE << [frequency |-> data.frequencies[k], amplitude |-> data.amplitudes[k]] >>

\* on_hover (556-583) with show_hover_info / hide_hover_info: the marker shown
\* afterwards.  With fewer than 2 bins the handler returns without touching it.
HoverAfter(cur, marker, x) ==
    IF Len(cur[1].frequencies) > 1 THEN LocateHover(cur[1], x) ELSE marker

\* a hover handler that dropped the pins it redraws over
HoverDroppingPins(inaxes, x) ==
    /\ IF ~inaxes \/ current_fft_data = <<>>
       THEN UNCHANGED << hover, last, permanent_annotations >>
       ELSE /\ hover' = HoverAfter(current_fft_data, hover, x)
            /\ permanent_annotations' = <<>>
            /\ last' = Done("on_hover",
                             IF Len(current_fft_data[1].frequencies) <= 1 THEN "ignored"
                             ELSE IF hover' = <<>> THEN "hidden" ELSE "shown",
                             Len(permanent_annotations))
    /\ UNCHANGED << current_fft_data, ax_title, ax_lines, peak_labels,
                    registry_vars, overlay_vars, scan, settings >>

on_hover(inaxes, x) ==
    /\ IF ~inaxes \/ current_fft_data = <<>>
       THEN UNCHANGED << hover, last >>
       ELSE /\ hover' = HoverAfter(current_fft_data, hover, x)
            /\ last' = Done("on_hover",
                             IF Len(current_fft_data[1].frequencies) <= 1 THEN "ignored"
                             ELSE IF hover' = <<>> THEN "hidden" ELSE "shown",
                             Len(permanent_annotations))
    /\ UNCHANGED << current_fft_data, permanent_annotations, ax_title, ax_lines, peak_labels,
                    registry_vars, overlay_vars, scan, settings >>

\* on_leave (786-788): hide_hover_info
on_leave ==
    /\ hover' = <<>>
    /\ last' = Done("on_leave", "hidden", Len(permanent_annotations))
    /\ UNCHANGED << current_fft_data, permanent_annotations, ax_title, ax_lines, peak_labels,
                    registry_vars, overlay_vars, scan, settings >>

\* add_permanent_annotation (735-768): the pin list after the append
add_permanent_annotation(pins, point) ==
    Append(pins, [frequency |-> point.frequency, amplitude |-> point.amplitude])

\* remove_specific_pin (703-722): pop(pin_index) when the index is in range
remove_specific_pin(pins, idx) ==
    IF 1 <= idx /\ idx <= Len(pins) THEN RemoveAt(pins, idx) ELSE pins

\* a clear that only took the newest pin off
DropNewestPin(pins) == IF pins = <<>> THEN pins ELSE SubSeq(pins, 1, Len(pins) - 1)

\* clear_permanent_annotations (770-784)
clear_permanent_annotations(pins) == <<>>

\* a handler that left the title as it was
KeepTitle(title, pins) == title

\* update_pins_title (724-733): first title line kept, second line by pin count
update_pins_title(title, pins) == [base |-> title.base, pins |-> PinsSuffix(Len(pins))]

\* lines 635-654: the pin list after a left click
LeftClick(pins, cur, x) ==
    IF LocateSingle(cur[1], x) = <<>> THEN pins
    ELSE add_permanent_annotation(pins, LocateSingle(cur[1], x)[1])

\* lines 656-664: the pin list after a right click
RightClick(pins, cur, x, y, xlim, ylim) ==
    IF find_clicked_pin(pins, cur, x, y, xlim, ylim) # 0
    THEN remove_specific_pin(pins, find_clicked_pin(pins, cur, x, y, xlim, ylim))
    ELSE clear_permanent_annotations(pins)

\* on_click (630-664).  xlim and ylim are what ax.get_xlim() / ax.get_ylim()
\* return when the handler runs (the toolbar lets the operator zoom freely).
on_click(inaxes, button, x, y, xlim, ylim) ==
    /\ IF ~inaxes \/ current_fft_data = <<>>
       THEN UNCHANGED << permanent_annotations, ax_title, last >>
       ELSE IF button = LeftButton
       THEN /\ permanent_annotations' = LeftClick(permanent_annotations, current_fft_data, x)
            /\ Len(permanent_annotations') <= MaxPins
            /\ IF permanent_annotations' = permanent_annotations
               THEN /\ UNCHANGED ax_title
                    /\ last' = Done("on_click", "rejected", Len(permanent_annotations))
               ELSE /\ ax_title' = update_pins_title(ax_title, permanent_annotations')
                    /\ last' = Done("on_click", "pinned", Len(permanent_annotations))
       ELSE IF button = RightButton
       THEN /\ permanent_annotations' =
                   RightClick(permanent_annotations, current_fft_data, x, y, xlim, ylim)
            /\ ax_title' = update_pins_title(ax_title, permanent_annotations')
            /\ last' = Done("on_click",
                   IF find_clicked_pin(permanent_annotations, current_fft_data,
                                       x, y, xlim, ylim) # 0
                   THEN "unpinned" ELSE "cleared", Len(permanent_annotations))
       ELSE UNCHANGED << permanent_annotations, ax_title, last >>
    /\ UNCHANGED << current_fft_data, hover, ax_lines, peak_labels,
                    registry_vars, overlay_vars, scan, settings >>

(***************************************************************************)
(* Saved results (save_to_results, remove_result, clear_all_results)       *)
(*                                                                         *)
(* checkbox_states is not a variable: on_treeview_click lets the operator  *)
(* check any set of rows before pressing a button, so the checked rows are *)
(* an input (a set of row positions) of remove_result and                  *)
(* plot_combined_results.                                                  *)
(***************************************************************************)
\* line 1242: result_id = len(self.fft_results) + 1
NextResultId(results) == Cardinality(DOMAIN results) + 1

\* line 1243: self.fft_results[result_id] = self.current_fft_data.copy()
StoreResult(results, id, data) ==
    [k \in DOMAIN results \cup {id} |-> IF k = id THEN data ELSE results[k]]

\* save_to_results (1235-1258)
save_to_results ==
    /\ IF current_fft_data = <<>>
       THEN /\ last' = Done("save_to_results", "error", 0)
            /\ UNCHANGED registry_vars
       ELSE /\ fft_results' = StoreResult(fft_results, NextResultId(fft_results),
                                           current_fft_data[1])
            /\ results_tree' = Append(results_tree,
                   [item |-> tree_serial + 1, text |-> NextResultId(fft_results)])
            /\ tree_serial' = tree_serial + 1
            /\ color_index' = color_index + 1
            /\ issued' = Append(issued, NextResultId(fft_results))
            /\ last' = Done("save_to_results", "ok", 0)
    /\ UNCHANGED << single_vars, overlay_vars, scan, settings >>

\* the result ids written on the checked rows
CheckedIds(rows, checked) == {rows[k].text : k \in checked}

\* the rows of a tree without the checked ones, in order
RECURSIVE KeepRows(_, _, _)
KeepRows(rows, checked, pos) ==
    IF pos > Len(rows) THEN <<>>
    ELSE IF pos \in checked THEN KeepRows(rows, checked, pos + 1)
    ELSE <<rows[pos]>> \o KeepRows(rows, checked, pos + 1)

\* lines 1307-1310: del self.fft_results[result_id] for every checked row
DeleteResults(results, ids) == [k \in DOMAIN results \ ids |-> results[k]]

\* remove_result (1300-1314)
remove_result(checked, confirm) ==
    /\ IF checked = {}
       THEN /\ last' = Done("remove_result", "warning", 0)
            /\ UNCHANGED << fft_results, results_tree >>
       ELSE IF ~confirm
       THEN UNCHANGED << fft_results, results_tree, last >>
       ELSE /\ fft_results' = DeleteResults(fft_results, CheckedIds(results_tree, checked))
            /\ results_tree' = KeepRows(results_tree, checked, 1)
            /\ last' = Done("remove_result", "ok", 0)
    /\ UNCHANGED << tree_serial, color_index, issued, single_vars, overlay_vars, scan, settings >>

\* clear_all_results (1316-1327): combined_ax.clear() removes every artist and
\* resets the scale; combined_data and the pin list are not touched
clear_all_results(confirm) ==
    /\ IF ~confirm
       THEN UNCHANGED << fft_results, results_tree, combined_hover, combined_title,
                         combined_lines, combined_yscale, last >>
       ELSE /\ fft_results' = << >>
            /\ results_tree' = <<>>
            /\ combined_hover' = <<>>
            /\ combined_lines' = <<>>
            /\ combined_yscale' = "linear"
            /\ combined_title' = [base |-> <<"Combined FFT Results">>, pins |-> PinsSuffix(0)]
            /\ last' = Done("clear_all_results", "ok", 0)
    /\ UNCHANGED << tree_serial, color_index, issued, single_vars,
                    combined_data, combined_permanent_annotations, scan, settings >>

(***************************************************************************)
(* Combined plot                                                           *)
(***************************************************************************)
\* line 1281: self.combined_data[result_id] = {...}; a key already present
\* keeps its place in the dict
PutCombined(cdata, id, data) ==
    LET e == [result_id |-> id, frequencies |-> data.frequencies,
              amplitudes |-> data.amplitudes, display_name |-> data.display_name,
              color |-> data.color]
    IN IF \E k \in 1..Len(cdata) : cdata[k].result_id = id
       THEN [k \in 1..Len(cdata) |-> IF cdata[k].result_id = id THEN e ELSE cdata[k]]
       ELSE Append(cdata, e)

\* lines 1271-1286: the loop over the checked rows in tree order; it stops at
\* the first row whose id is not a key of fft_results (KeyError at line 1273)
RECURSIVE PlotLoop(_, _, _, _, _)
PlotLoop(rows, checked, results, pos, acc) ==
    IF pos > Len(rows) THEN acc
    ELSE IF pos \notin checked THEN PlotLoop(rows, checked, results, pos + 1, acc)
    ELSE IF rows[pos].text \notin DOMAIN results THEN [acc EXCEPT !.failed = TRUE]
    ELSE LET data == results[rows[pos].text]
         IN PlotLoop(rows, checked, results, pos + 1,
                     [failed |-> FALSE,
                      cdata |-> PutCombined(acc.cdata, rows[pos].text, data),
                      lines |-> Append(acc.lines, Curve(data.frequencies, data.amplitudes))])

\* line 1269: self.combined_permanent_annotations.clear()
ClearPinsOnPlot(pins) == <<>>

\* plot_combined_results (1260-1298)
plot_combined_results(checked) ==
    /\ IF checked = {}
       THEN \* line 1263: showwarning, return
            /\ last' = [Done("plot_combined_results", "warning",
                              Len(combined_permanent_annotations))
                        EXCEPT !.msgs = <<"showwarning">>]
            /\ UNCHANGED overlay_vars
       ELSE LET r == PlotLoop(results_tree, checked, fft_results, 1,
                              [failed |-> FALSE, cdata |-> <<>>, lines |-> <<>>])
            IN /\ combined_data' = r.cdata
               /\ combined_lines' = r.lines
               /\ combined_permanent_annotations' =
                      ClearPinsOnPlot(combined_permanent_annotations)
               /\ combined_hover' = <<>>
               /\ combined_yscale' = IF r.lines = <<>> THEN "linear" ELSE "log"
               /\ combined_title' =
                      [base |-> IF r.failed THEN <<>> ELSE <<"Combined FFT Results">>,
                       pins |-> PinsSuffix(0)]
               /\ last' = [Done("plot_combined_results", IF r.failed THEN "error" ELSE "ok",
                                 Len(combined_permanent_annotations))
                           EXCEPT !.msgs = \* line 1298: showerror in the except clause
                                           IF r.failed THEN <<"showerror">> ELSE <<>>]
    /\ UNCHANGED << single_vars, registry_vars, scan, settings >>

\* an overlay hover handler that clears the pins of the single plot
CombinedHoverClearingSinglePins(inaxes, x) ==
    /\ IF ~inaxes \/ combined_data = <<>>
       THEN UNCHANGED << combined_hover, last, permanent_annotations >>
       ELSE /\ combined_hover' = LocateCombined(combined_data, x)
            /\ permanent_annotations' = <<>>
            /\ last' = Done("on_combined_hover",
                             IF combined_hover' = <<>> THEN "hidden" ELSE "shown",
                             Len(combined_permanent_annotations))
    /\ UNCHANGED << combined_data, combined_permanent_annotations, combined_title,
                    combined_lines, combined_yscale, current_fft_data, hover, ax_title,
                    ax_lines, peak_labels, registry_vars, scan, settings >>

\* on_combined_hover (790-820) with show/hide_combined_hover_info
on_combined_hover(inaxes, x) ==
    /\ IF ~inaxes \/ combined_data = <<>>
       THEN UNCHANGED << combined_hover, last >>
       ELSE /\ combined_hover' = LocateCombined(combined_data, x)
            /\ last' = Done("on_combined_hover",
                             IF combined_hover' = <<>> THEN "hidden" ELSE "shown", Len(combined_permanent_annotations))
    /\ UNCHANGED << combined_data, combined_permanent_annotations, combined_title,
                    combined_lines, combined_yscale, single_vars, registry_vars, scan, settings >>

\* on_combined_leave (1021-1023)
on_combined_leave ==
    /\ combined_hover' = <<>>
    /\ last' = Done("on_combined_leave", "hidden", Len(combined_permanent_annotations))
    /\ UNCHANGED << combined_data, combined_permanent_annotations, combined_title,
                    combined_lines, combined_yscale, single_vars, registry_vars, scan, settings >>

\* add_combined_permanent_annotation (969-1003)
add_combined_permanent_annotation(pins, data) == Append(pins, [data |-> data])

\* remove_combined_specific_pin (937-956)
remove_combined_specific_pin(pins, idx) ==
    IF 1 <= idx /\ idx <= Len(pins) THEN RemoveAt(pins, idx) ELSE pins

\* clear_combined_permanent_annotations (1005-1019)
clear_combined_permanent_annotations(pins) == <<>>

\* update_combined_pins_title (958-967)
update_combined_pins_title(title, pins) ==
    [base |-> title.base, pins |-> PinsSuffix(Len(pins))]

\* lines 874-898: the pin list after a left click
CombinedLeftClick(pins, cdata, x) ==
    IF LocateCombined(cdata, x) = <<>> THEN pins
    ELSE add_combined_permanent_annotation(pins, LocateCombined(cdata, x)[1])

\* lines 900-908: the pin list after a right click
CombinedRightClick(pins, x, y, xlim, ylim) ==
    IF find_combined_clicked_pin(pins, x, y, xlim, ylim) # 0
    THEN remove_combined_specific_pin(pins, find_combined_clicked_pin(pins, x, y, xlim, ylim))
    ELSE clear_combined_permanent_annotations(pins)

\* on_combined_click (869-908)
on_combined_click(inaxes, button, x, y, xlim, ylim) ==
    /\ IF ~inaxes \/ combined_data = <<>>
       THEN UNCHANGED << combined_permanent_annotations, combined_title, last >>
       ELSE IF button = LeftButton
       THEN /\ combined_permanent_annotations' =
                   CombinedLeftClick(combined_permanent_annotations, combined_data, x)
            /\ Len(combined_permanent_annotations') <= MaxPins
            /\ IF combined_permanent_annotations' = combined_permanent_annotations
               THEN /\ UNCHANGED combined_title
                    /\ last' = Done("on_combined_click", "rejected", Len(combined_permanent_annotations))
               ELSE /\ combined_title' = update_combined_pins_title(
                                            combined_title, combined_permanent_annotations')
                    /\ last' = Done("on_combined_click", "pinned", Len(combined_permanent_annotations))
       ELSE IF button = RightButton
       THEN /\ combined_permanent_annotations' =
                   CombinedRightClick(combined_permanent_annotations, x, y, xlim, ylim)
            /\ combined_title' = update_combined_pins_title(
                                    combined_title, combined_permanent_annotations')
            /\ last' = Done("on_combined_click",
                   IF find_combined_clicked_pin(combined_permanent_annotations,
                                                x, y, xlim, ylim) # 0
                   THEN "unpinned" ELSE "cleared", Len(combined_permanent_annotations))
       ELSE UNCHANGED << combined_permanent_annotations, combined_title, last >>
    /\ UNCHANGED << combined_data, combined_hover, combined_lines, combined_yscale,
                    single_vars, registry_vars, scan, settings >>

(***************************************************************************)
(* The application: one event handler runs to completion per step          *)
(***************************************************************************)
RowSets == SUBSET (1..Len(results_tree))

\* event.ydata and get_ylim() on a log axis are positive
LogYs == {y \in CursorYs : y > 0}

\* motion_notify_event: outside the axes (xdata is None) or at a cursor position
HoverEvents(xs) == {[inaxes |-> FALSE, x |-> 0]} \cup {[inaxes |-> TRUE, x |-> x] : x \in xs}

\* button_press_event: outside the axes, or inside with a button and a position;
\* only the left- and right-click branches read xdata, only the right-click
\* branch reads ydata and the axis limits
ClickEvents(xs, ys, ylims) ==
    {[inaxes |-> FALSE, button |-> LeftButton, x |-> 0, y |-> 10,
      xlim |-> <<0, 300>>, ylim |-> <<1, 1000>>]}
    \cup {[inaxes |-> TRUE, button |-> LeftButton, x |-> x, y |-> 10,
           xlim |-> <<0, 300>>, ylim |-> <<1, 1000>>] : x \in xs}
    \cup {[inaxes |-> TRUE, button |-> b, x |-> 100, y |-> 10,
           xlim |-> <<0, 300>>, ylim |-> <<1, 1000>>] :
             b \in MouseButtons \ {LeftButton, RightButton}}
    \cup {[inaxes |-> TRUE, button |-> RightButton, x |-> x, y |-> y,
           xlim |-> xl, ylim |-> yl] :
             x \in xs \cap UnpinXs, y \in ys, xl \in XLims, yl \in ylims}

\* the clicks arrive with the y axis at the full view, which holds every
\* cursor position
ClickYLims == { <<1, 1000>> }
SingleClickEvents(xs) == ClickEvents(xs, LogYs, ClickYLims)
CombinedClickEvents(xs) ==
    IF combined_yscale = "log" THEN ClickEvents(xs, LogYs, ClickYLims)
    ELSE ClickEvents(xs, CursorYs, LinearYLims)

\* the FFT Analysis tab and the saved-results list
Next ==
    \/ \E d \in Datasets, s \in PeakSettings : run_fft_analysis(d, s)
    \/ \E e \in HoverEvents(HoverXs) : on_hover(e.inaxes, e.x)
    \/ on_leave
    \/ \E e \in SingleClickEvents(CursorXs) :
          on_click(e.inaxes, e.button, e.x, e.y, e.xlim, e.ylim)
    \/ color_index < MaxSaves /\ save_to_results
    \/ \E checked \in RowSets, confirm \in BOOLEAN : remove_result(checked, confirm)
    \/ \E confirm \in BOOLEAN : clear_all_results(confirm)

Spec == Init /\ [][Next]_vars

\* Both plots in use.  The state space of the whole application is the product
\* of the two pin boards and the saved results; this specification starts after
\* the operator has analysed and saved dataset A and then dataset B (a state
\* Spec reaches: run, save, run, save) and leaves the saved results alone.
InitBoards ==
    LET a == CHOOSE d \in Datasets : d.name = "A"
        b == CHOOSE d \in Datasets : d.name = "B"
    IN /\ current_fft_data = << Analysis(b, ColorAt(1)) >>
       /\ fft_results = (1 :> Analysis(a, ColorAt(0)) @@ 2 :> Analysis(b, ColorAt(1)))
       /\ results_tree = << [item |-> 1, text |-> 1], [item |-> 2, text |-> 2] >>
       /\ tree_serial = 2
       /\ color_index = 2
       /\ permanent_annotations = <<>>
       /\ hover = <<>>
       /\ ax_title = [base |-> <<"FFT Analysis:", "B">>, pins |-> PinsSuffix(0)]
       /\ ax_lines = << Curve(Frequencies(b), Amplitudes(b)) >>
       /\ peak_labels = <<>>
       /\ combined_data = <<>>
       /\ combined_permanent_annotations = <<>>
       /\ combined_hover = <<>>
       /\ combined_title = [base |-> <<"Combined FFT Results">>, pins |-> PinsSuffix(0)]
       /\ combined_lines = <<>>
       /\ combined_yscale = "linear"
       /\ last = Done("save_to_results", "ok", 0)
       /\ issued = <<1, 2>>
       /\ scan = IdleScan
       /\ settings = DefaultSettings

\* the runs made while both plots are in use: on data that can be analysed,
\* with labels off
BoardDatasets == {d \in Datasets : DataLen(d) > 0}
BoardSettings == {s \in PeakSettings : s.peak_count = 0}

NextBoards ==
    \/ \E d \in BoardDatasets, s \in BoardSettings : run_fft_analysis(d, s)
    \/ \E e \in HoverEvents(HoverXs) : on_hover(e.inaxes, e.x)
    \/ on_leave
    \/ \E e \in SingleClickEvents(CursorXs) :
          on_click(e.inaxes, e.button, e.x, e.y, e.xlim, e.ylim)
    \/ \E checked \in RowSets : plot_combined_results(checked)
    \/ \E e \in HoverEvents(HoverXs) : on_combined_hover(e.inaxes, e.x)
    \/ on_combined_leave
    \/ \E e \in CombinedClickEvents(CursorXs) :
          on_combined_click(e.inaxes, e.button, e.x, e.y, e.xlim, e.ylim)

SpecBoards == InitBoards /\ [][NextBoards]_vars

(***************************************************************************)
(* The FFT Analysis tab on its own: runs over a file of 12 rows with every *)
(* kind of row range, sampling frequency and peak setting, and pins set in *)
(* between.  It starts after dataset A has been analysed and saved (run,   *)
(* save), so the registry holds an entry.                                  *)
(***************************************************************************)
\* the column: no NaN, NaN in the second half, NaN throughout
NoNans == {}
TailNans == 6..11
AllNans == 0..11

\* (start line, line count, NaN rows): the whole file; its clean first half;
\* a range ending on the last row; ranges running past the last row, with 6,
\* 3 and 1 rows left and with only NaN rows left; only NaN rows; a start line
\* past the last row; ranges of 1, 2 and 5 rows
RunRanges ==
    { <<1, 12, NoNans>>, <<1, 12, TailNans>>, <<7, 6, NoNans>>, <<7, 12, NoNans>>,
      <<10, 12, NoNans>>, <<12, 5, NoNans>>, <<7, 12, TailNans>>, <<1, 12, AllNans>>,
      <<13, 4, NoNans>>, <<12, 1, NoNans>>, <<11, 2, NoNans>>, <<8, 5, NoNans>> }

RunData(start_line, n_lines, nans, freq_hz) ==
    [name |-> "R", rows |-> 12, nans |-> nans, start_line |-> start_line,
     n_lines |-> n_lines, freq_hz |-> freq_hz, tones |-> <<0, 0, 10, 0, 100, 0>>]

\* freq_var is a free entry: positive, zero or negative
RunDatasets ==
    { RunData(r[1], r[2], r[3], 1200) : r \in RunRanges }
    \cup { RunData(1, 12, NoNans, f) : f \in {0, 0 - 1200} }

\* the whole file analysed with each entry of the window combobox (line 166);
\* the tapered signal leaks into the neighbouring bins
WindowTags == {"none", "blackman", "hann", "hamming"}
WindowedData(tag) ==
    [name |-> "R", rows |-> 12, nans |-> NoNans, start_line |-> 1, n_lines |-> 12,
     freq_hz |-> 1200, tones |-> <<0, 0, 10, 0, 100, 0>>, window_func |-> tag,
     tapered |-> [blackman |-> <<0, 3, 4, 25, 42, 25>>,
                  hann |-> <<0, 2, 5, 27, 50, 25>>,
                  hamming |-> <<0, 1, 5, 23, 54, 23>>]]
WindowedDatasets == { WindowedData(tag) : tag \in WindowTags }

\* 20 samples of 100 * cos(2*pi*500*t) taken at 2000 Hz: 5 periods, bin 5 of 10
PureTone ==
    [name |-> "P", rows |-> 20, nans |-> NoNans, start_line |-> 1, n_lines |-> 20,
     freq_hz |-> 2000, tones |-> <<0, 0, 0, 0, 0, 100>>, window_func |-> "none"]

\* the peak settings of a fresh installation (lines 29-42) with one label, and
\* the same with the narrowest window
LabelSettings ==
    { [peak_count |-> 1, mode |-> "relative", relpct |-> 10, absthr |-> 0, statk10 |-> 10,
       min_distance |-> 10, window_size |-> w, skip_dc |-> TRUE] : w \in {1, 3} }

\* the settings widgets take typed values and the settings file any value:
\* settings inside the documented ranges ...
ValidSettings ==
    { [peak_count |-> c, mode |-> m.mode, relpct |-> m.relpct, absthr |-> m.absthr,
       statk10 |-> 10, min_distance |-> dist, window_size |-> 1, skip_dc |-> TRUE] :
        c \in {0, 1, 3},
        m \in { [mode |-> "relative", relpct |-> 50, absthr |-> 0],
                [mode |-> "absolute", relpct |-> 10, absthr |-> 0] },
        dist \in {1, 3} }

\* ... and outside them: a negative absolute threshold, a relative fraction of
\* 0, an unknown mode, min_distance 0, window size 0
InvalidSettings ==
    { [peak_count |-> 1, mode |-> m.mode, relpct |-> m.relpct, absthr |-> m.absthr,
       statk10 |-> 10, min_distance |-> m.dist, window_size |-> m.win, skip_dc |-> TRUE] :
        m \in { [mode |-> "absolute", relpct |-> 10, absthr |-> 0 - 1, dist |-> 1, win |-> 1],
                [mode |-> "relative", relpct |-> 0, absthr |-> 0, dist |-> 1, win |-> 1],
                [mode |-> "median", relpct |-> 10, absthr |-> 0, dist |-> 1, win |-> 1],
                [mode |-> "absolute", relpct |-> 10, absthr |-> 0, dist |-> 0, win |-> 1],
                [mode |-> "absolute", relpct |-> 10, absthr |-> 0, dist |-> 1, win |-> 0] } }

RunSettings == ValidSettings \cup InvalidSettings

InitRuns ==
    LET a == CHOOSE d \in Datasets : d.name = "A"
    IN /\ current_fft_data = << Analysis(a, ColorAt(0)) >>
       /\ fft_results = (1 :> Analysis(a, ColorAt(0)))
       /\ results_tree = << [item |-> 1, text |-> 1] >>
       /\ tree_serial = 1
       /\ color_index = 1
       /\ permanent_annotations = <<>>
       /\ hover = <<>>
       /\ ax_title = [base |-> <<"FFT Analysis:", "A">>, pins |-> PinsSuffix(0)]
       /\ ax_lines = << Curve(Frequencies(a), Amplitudes(a)) >>
       /\ peak_labels = <<>>
       /\ combined_data = <<>>
       /\ combined_permanent_annotations = <<>>
       /\ combined_hover = <<>>
       /\ combined_title = [base |-> <<"Combined FFT Results">>, pins |-> PinsSuffix(0)]
       /\ combined_lines = <<>>
       /\ combined_yscale = "linear"
       /\ last = Done("save_to_results", "ok", 0)
       /\ issued = <<1>>
       /\ scan = IdleScan
       /\ settings = DefaultSettings

NextRuns ==
    \/ \E d \in RunDatasets, s \in RunSettings : run_fft_analysis(d, s)
    \/ \E d \in WindowedDatasets \cup {PureTone}, s \in LabelSettings :
          run_fft_analysis(d, s)
    \/ \E e \in SingleClickEvents({201}) :
          on_click(e.inaxes, e.button, e.x, e.y, e.xlim, e.ylim)

SpecRuns == InitRuns /\ [][NextRuns]_vars

(***************************************************************************)
(* The peak detector on its own: detect_peaks_advanced run on every        *)
(* amplitude array and every setting within the bounds, one iteration of   *)
(* its outer loop per step.                                                *)
(***************************************************************************)
\* amplitude arrays: every sequence of at most MaxBins values, each one of three
\* levels (two suffice for a local maximum, three for a higher and a lower one)
AmpLevels == {0, 1, 2}
AmpSeqs == UNION { [1..n -> AmpLevels] : n \in 0..MaxBins }

DetectSettings ==
    { [peak_count |-> 1, mode |-> m.mode, relpct |-> m.relpct, absthr |-> m.absthr,
       statk10 |-> m.statk10, min_distance |-> d, window_size |-> w, skip_dc |-> dc] :
        m \in { [mode |-> "relative", relpct |-> 50, absthr |-> 0, statk10 |-> 0],
                [mode |-> "absolute", relpct |-> 0, absthr |-> 0, statk10 |-> 0],
                [mode |-> "statistical", relpct |-> 0, absthr |-> 0, statk10 |-> 10] },
        d \in 1..MaxDistance, w \in 1..MaxWindow, dc \in BOOLEAN }

InitDetect ==
    /\ GuiInit
    /\ scan \in { [pc |-> "start", amplitude |-> a, i |-> 0, peaks_idx |-> <<>>,
                    settings |-> s] : a \in AmpSeqs, s \in DetectSettings }

\* lines 1350-1371: read the settings, compute the threshold
detect_begin ==
    /\ scan.pc = "start"
    /\ scan' = IF DetectRaises(scan.amplitude, scan.settings)
               THEN [scan EXCEPT !.pc = "raised"]
               ELSE [scan EXCEPT !.pc = "scan", !.i = ScanFirst(scan.settings)]
    /\ UNCHANGED gui_vars

\* lines 1374-1396: one iteration of the outer loop
detect_iterate ==
    /\ scan.pc = "scan"
    /\ scan.i < ScanEnd(scan.amplitude, scan.settings)
    /\ scan' = [scan EXCEPT
                  !.peaks_idx = ScanStep(scan.peaks_idx, scan.amplitude, scan.i, scan.settings),
                  !.i = scan.i + 1]
    /\ UNCHANGED gui_vars

\* line 1398: return peaks_idx
detect_return ==
    /\ scan.pc = "scan"
    /\ scan.i >= ScanEnd(scan.amplitude, scan.settings)
    /\ scan' = [scan EXCEPT !.pc = "done"]
    /\ UNCHANGED gui_vars

NextDetect == detect_begin \/ detect_iterate \/ detect_return

SpecDetect == InitDetect /\ [][NextDetect]_vars

(***************************************************************************)
(* The Results tab on its own: saved results are removed and overlaid, and *)
(* the overlay is hovered and clicked.  It starts after the operator has   *)
(* saved four analyses and removed the first: run, save (id 1), run S,     *)
(* save (id 2), run A, save (id 3), remove the row of id 1, save again     *)
(* (len(fft_results) + 1 = 3 once more: the entry of id 3 is overwritten   *)
(* and a second row showing 3 is inserted).  S is an analysis of 2         *)
(* samples, which has a single bin.                                        *)
(***************************************************************************)
ShortData ==
    [name |-> "S", rows |-> 2, nans |-> {}, start_line |-> 1, n_lines |-> 2,
     freq_hz |-> 800, tones |-> <<5>>]

InitOverlay ==
    LET a == CHOOSE d \in Datasets : d.name = "A"
    IN /\ current_fft_data = << Analysis(a, ColorAt(2)) >>
       /\ fft_results = (2 :> Analysis(ShortData, ColorAt(1)) @@ 3 :> Analysis(a, ColorAt(2)))
       /\ results_tree = << [item |-> 2, text |-> 2], [item |-> 3, text |-> 3],
                            [item |-> 4, text |-> 3] >>
       /\ tree_serial = 4
       /\ color_index = 4
       /\ permanent_annotations = <<>>
       /\ hover = <<>>
       /\ ax_title = [base |-> <<"FFT Analysis:", "A">>, pins |-> PinsSuffix(0)]
       /\ ax_lines = << Curve(Frequencies(a), Amplitudes(a)) >>
       /\ peak_labels = <<>>
       /\ combined_data = <<>>
       /\ combined_permanent_annotations = <<>>
       /\ combined_hover = <<>>
       /\ combined_title = [base |-> <<"Combined FFT Results">>, pins |-> PinsSuffix(0)]
       /\ combined_lines = <<>>
       /\ combined_yscale = "linear"
       /\ last = Done("save_to_results", "ok", 0)
       /\ issued = <<1, 2, 3, 3>>
       /\ scan = IdleScan
       /\ settings = DefaultSettings

\* where the cursor is on the overlay: on a bin, on the edge of the tolerance
\* around it, between bins, and next to a second bin
OverlayXs == {100, 106, 150, 201}

NextOverlay ==
    \/ \E checked \in RowSets, confirm \in BOOLEAN : remove_result(checked, confirm)
    \/ \E confirm \in BOOLEAN : clear_all_results(confirm)
    \/ \E checked \in RowSets : plot_combined_results(checked)
    \/ \E e \in HoverEvents(OverlayXs) : on_combined_hover(e.inaxes, e.x)
    \/ on_combined_leave
    \/ \E e \in CombinedClickEvents(OverlayXs) :
          on_combined_click(e.inaxes, e.button, e.x, e.y, e.xlim, e.ylim)

SpecOverlay == InitOverlay /\ [][NextOverlay]_vars

(***************************************************************************)
(* Settings and export: save_settings, export_data, export_plot.  Whether  *)
(* the operator chose a file and whether the write succeeds are inputs.    *)
(***************************************************************************)
\* what the settings widgets hold when Save Settings is pressed: the peak
\* settings and the two pin colours (lines 1487-1499)
WidgetValues ==
    { [peak |-> s, pin_face_color |-> f, pin_edge_color |-> "orange"] :
        s \in PeakSettings \cup {DefaultSettings.peak}, f \in {"yellow", "#00ff00"} }

\* save_settings (1485-1506): the widget values are stored into self.settings
\* key by key (lines 1487-1499), then the dict is written to the settings file
\* inside try/except
save_settings(w, write_ok) ==
    /\ settings' = w
    /\ last' = [Done("save_settings", IF write_ok THEN "ok" ELSE "failed", 0)
                EXCEPT !.msgs = IF write_ok THEN <<"showinfo">> ELSE <<"showerror">>]
    /\ UNCHANGED << single_vars, registry_vars, overlay_vars, scan >>

\* export_data (1146-1169) and export_plot (1171-1188): without an analysis an
\* error box; with an empty file name nothing; else the write, inside try/except
ExportDone(op, chosen, write_ok) ==
    IF current_fft_data = <<>>
    THEN [Done(op, "error", 0) EXCEPT !.msgs = <<"showerror">>]
    ELSE IF ~chosen THEN last
    ELSE [Done(op, IF write_ok THEN "ok" ELSE "failed", 0)
          EXCEPT !.msgs = IF write_ok THEN <<"showinfo">> ELSE <<"showerror">>]

export_data(chosen, write_ok) ==
    /\ last' = ExportDone("export_data", chosen, write_ok)
    /\ UNCHANGED << single_vars, registry_vars, overlay_vars, scan, settings >>

export_plot(chosen, write_ok) ==
    /\ last' = ExportDone("export_plot", chosen, write_ok)
    /\ UNCHANGED << single_vars, registry_vars, overlay_vars, scan, settings >>

\* the FFT Analysis tab and the Settings tab, from a fresh start
NextFiles ==
    \/ \E d \in Datasets, s \in PeakSettings : run_fft_analysis(d, s)
    \/ \E e \in SingleClickEvents(UnpinXs) :
          on_click(e.inaxes, e.button, e.x, e.y, e.xlim, e.ylim)
    \/ \E w \in WidgetValues, write_ok \in BOOLEAN : save_settings(w, write_ok)
    \/ \E chosen, write_ok \in BOOLEAN : export_data(chosen, write_ok)
    \/ \E chosen, write_ok \in BOOLEAN : export_plot(chosen, write_ok)

SpecFiles == Init /\ [][NextFiles]_vars

(***************************************************************************)
(* SpecMerge: the detector loop on spectra one bin longer than SpecDetect's *)
(* (window 1, DC not skipped, the two largest minimum distances), long      *)
(* enough for a candidate to come up near the later of two accepted peaks.  *)
(***************************************************************************)
MergeSeqs == [1..(MaxBins + 1) -> AmpLevels]

MergeSettings ==
    {s \in DetectSettings : /\ s.window_size = 1 /\ ~s.skip_dc
                            /\ s.min_distance >= MaxDistance - 1}

InitMerge ==
    /\ GuiInit
    /\ scan \in { [pc |-> "start", amplitude |-> a, i |-> 0, peaks_idx |-> <<>>,
                    settings |-> s] : a \in MergeSeqs, s \in MergeSettings }

SpecMerge == InitMerge /\ [][NextDetect]_vars

(***************************************************************************)
(* SpecRegistry: the saved-results list on its own, with one save more     *)
(* than Spec explores: analyses of A and B are saved, removed and plotted  *)
(* together.                                                               *)
(***************************************************************************)
NextRegistry ==
    \/ \E d \in BoardDatasets, s \in BoardSettings : run_fft_analysis(d, s)
    \/ color_index < MaxSaves + 1 /\ save_to_results
    \/ \E checked \in RowSets, confirm \in BOOLEAN : remove_result(checked, confirm)
    \/ \E confirm \in BOOLEAN : clear_all_results(confirm)
    \/ \E checked \in RowSets : plot_combined_results(checked)

SpecRegistry == Init /\ [][NextRegistry]_vars

(***************************************************************************)
(* SpecCurves: both plots with the cursor at the left end of the            *)
(* frequency axis, next to 0 Hz, and on a bin of the curve.                 *)
(***************************************************************************)
\* event.xdata: 3 Hz from the DC bin, and on the bin at 100 Hz
LeftEndXs == {3, 100}

NextCurves ==
    \/ \E d \in BoardDatasets, s \in BoardSettings : run_fft_analysis(d, s)
    \/ \E e \in HoverEvents(LeftEndXs) : on_hover(e.inaxes, e.x)
    \/ \E e \in SingleClickEvents(LeftEndXs) :
          on_click(e.inaxes, e.button, e.x, e.y, e.xlim, e.ylim)
    \/ \E checked \in RowSets : plot_combined_results(checked)
    \/ \E e \in HoverEvents(LeftEndXs) : on_combined_hover(e.inaxes, e.x)
    \/ \E e \in CombinedClickEvents(LeftEndXs) :
          on_combined_click(e.inaxes, e.button, e.x, e.y, e.xlim, e.ylim)

SpecCurves == InitBoards /\ [][NextCurves]_vars

(***************************************************************************)
(* Properties                                                              *)
(***************************************************************************)
\* C1: registry ids are never reused: the id a save issues is strictly greater
\* than every id issued earlier, also after removals and clear-all.
C1_IdsNeverReused ==
    \A i, j \in 1..Len(issued) : i < j => issued[i] < issued[j]

\* C2: copy-on-save: a step of run_fft_analysis, on_hover, on_leave or on_click
\* (pin, unpin) leaves every stored entry (and the set of stored ids) as it was;
\* the registry changes only in steps of save_to_results, remove_result and
\* clear_all_results.  (Every handler that changes anything records itself in
\* last, so last' names the handler of the step.)
C2_CopyOnSave ==
    [][ /\ last'.op \in {"run_fft_analysis", "on_hover", "on_leave", "on_click"}
           => fft_results' = fft_results
        /\ fft_results' # fft_results
           => last'.op \in {"save_to_results", "remove_result", "clear_all_results"}
      ]_vars

\* C2 witness: an analysis of other data has completed while the registry holds
\* an earlier analysis, and pins have been set on the new one
C2_RunAfterSave ==
    /\ last.op = "on_click" /\ last.res = "pinned"
    /\ fft_results # << >>
    /\ \A k \in DOMAIN fft_results :
          fft_results[k].display_name # current_fft_data[1].display_name

\* the right clicks and the left clicks among a set of button_press_events
RightClicks(events) == {e \in events : e.inaxes /\ e.button = RightButton}
LeftClicks(events) == {e \in events : e.inaxes /\ e.button = LeftButton}

\* the (frequency, amplitude) points of the combined plot's pins
PinPoints(cpins) == [k \in 1..Len(cpins) |-> cpins[k].data]

\* C3 in full: on either plot, right after a left click has appended a pin P,
\* the pin lookup called at P's own (frequency, amplitude) returns the index of
\* P, and a right click at those coordinates reduces the pin count by exactly
\* one -- whatever the axis limits are.  (The index clause fails wherever an
\* earlier pin lies within tolerance of P: the first match wins.)
C3_PinFindUnpin ==
    /\ (last.op = "on_click" /\ last.res = "pinned") =>
          LET n == Len(permanent_annotations)
              P == permanent_annotations[n]
          IN \A xl \in XLims, yl \in LogYLims :
                /\ find_clicked_pin(permanent_annotations, current_fft_data,
                                    P.frequency, P.amplitude, xl, yl) = n
                /\ Len(RightClick(permanent_annotations, current_fft_data,
                                  P.frequency, P.amplitude, xl, yl)) = n - 1
    /\ (last.op = "on_combined_click" /\ last.res = "pinned") =>
          LET n == Len(combined_permanent_annotations)
              P == combined_permanent_annotations[n].data
          IN \A xl \in XLims, yl \in LogYLims :
                /\ find_combined_clicked_pin(combined_permanent_annotations,
                                             P.frequency, P.amplitude, xl, yl) = n
                /\ Len(CombinedRightClick(combined_permanent_annotations,
                                          P.frequency, P.amplitude, xl, yl)) = n - 1

\* C3, its last clause: on either plot, right after a left click has appended a
\* pin P, a right click at P's own (frequency, amplitude) reduces the pin count
\* by exactly one.
C3_UnpinAtPinReducesByOne ==
    /\ (last.op = "on_click" /\ last.res = "pinned") =>
          LET n == Len(permanent_annotations)
              P == permanent_annotations[n]
          IN \A xl \in XLims, yl \in LogYLims :
                Len(RightClick(permanent_annotations, current_fft_data,
                               P.frequency, P.amplitude, xl, yl)) = n - 1
    /\ (last.op = "on_combined_click" /\ last.res = "pinned") =>
          LET n == Len(combined_permanent_annotations)
              P == combined_permanent_annotations[n].data
          IN \A xl \in XLims, yl \in LogYLims :
                Len(CombinedRightClick(combined_permanent_annotations,
                                       P.frequency, P.amplitude, xl, yl)) = n - 1

\* the pin lookup as one rule for both plots: x within 2% of the visible range,
\* y in log10 space within 5% of the visible log range, linear y distance when
\* a coordinate is not positive; the first pin in list order (0: none)
FindNear(points, x, y, xlim, ylim) ==
    FirstOf({k \in 1..Len(points) :
               PinMatches(points[k].frequency, points[k].amplitude, x, y, xlim, ylim)})

\* C4: a right click for which the pin lookup matches pin i removes exactly
\* that pin: the list afterwards is the list before with element i deleted, the
\* other pins unchanged and in the same order.
C4_UnpinRemovesExactlyThatPin ==
    [][ /\ last'.op = "on_click" =>
             \A e \in RightClicks(SingleClickEvents(CursorXs)) :
                ( /\ on_click(e.inaxes, e.button, e.x, e.y, e.xlim, e.ylim)
                  /\ current_fft_data # <<>>
                  /\ FindNear(permanent_annotations, e.x, e.y, e.xlim, e.ylim) # 0 )
                => permanent_annotations' =
                     RemoveAt(permanent_annotations,
                              FindNear(permanent_annotations, e.x, e.y, e.xlim, e.ylim))
        /\ last'.op = "on_combined_click" =>
             \A e \in RightClicks(CombinedClickEvents(CursorXs)) :
                ( /\ on_combined_click(e.inaxes, e.button, e.x, e.y, e.xlim, e.ylim)
                  /\ combined_data # <<>>
                  /\ FindNear(PinPoints(combined_permanent_annotations),
                              e.x, e.y, e.xlim, e.ylim) # 0 )
                => combined_permanent_annotations' =
                     RemoveAt(combined_permanent_annotations,
                              FindNear(PinPoints(combined_permanent_annotations),
                                       e.x, e.y, e.xlim, e.ylim))
      ]_vars

\* C4 with each plot's own lookup in place of the common rule: the list a right
\* click installs when the lookup returns i is the list with element i deleted
\* (list.pop(i)), and that is the list found after every such click.
C4_RemovalByIndex ==
    /\ \A e \in RightClicks(SingleClickEvents(CursorXs)) :
          LET i == find_clicked_pin(permanent_annotations, current_fft_data,
                                    e.x, e.y, e.xlim, e.ylim)
          IN i # 0 => RightClick(permanent_annotations, current_fft_data,
                                 e.x, e.y, e.xlim, e.ylim)
                      = RemoveAt(permanent_annotations, i)
    /\ \A e \in RightClicks(CombinedClickEvents(CursorXs)) :
          LET i == find_combined_clicked_pin(combined_permanent_annotations,
                                             e.x, e.y, e.xlim, e.ylim)
          IN i # 0 => CombinedRightClick(combined_permanent_annotations,
                                         e.x, e.y, e.xlim, e.ylim)
                      = RemoveAt(combined_permanent_annotations, i)
    /\ last.op \in {"on_click", "on_combined_click"} /\ last.res = "unpinned"
         => /\ last.n >= 1
            /\ last.op = "on_click" => Len(permanent_annotations) = last.n - 1
            /\ last.op = "on_combined_click"
                 => Len(combined_permanent_annotations) = last.n - 1

\* C5: a right click inside the axes at a point where the pin lookup matches no
\* pin leaves the pin list of that plot empty, whatever its length before: the
\* list such a click installs is empty for every click position and all axis
\* limits, and the list is empty after every such click.  A plot without data
\* ignores the click, and has no pins.
C5_UnpinNoMatchClearsAll ==
    /\ current_fft_data = <<>> => permanent_annotations = <<>>
    /\ combined_data = <<>> => combined_permanent_annotations = <<>>
    /\ \A e \in RightClicks(SingleClickEvents(CursorXs)) :
          FindNear(permanent_annotations, e.x, e.y, e.xlim, e.ylim) = 0
          => RightClick(permanent_annotations, current_fft_data,
                        e.x, e.y, e.xlim, e.ylim) = <<>>
    /\ \A e \in RightClicks(CombinedClickEvents(CursorXs)) :
          find_combined_clicked_pin(combined_permanent_annotations,
                                    e.x, e.y, e.xlim, e.ylim) = 0
          => CombinedRightClick(combined_permanent_annotations,
                                e.x, e.y, e.xlim, e.ylim) = <<>>
    /\ last.op = "on_click" /\ last.res = "cleared" => permanent_annotations = <<>>
    /\ last.op = "on_combined_click" /\ last.res = "cleared"
         => combined_permanent_annotations = <<>>

\* C5 witness: a right click on the combined plot matched none of two pins and
\* both are gone
C5_ClearedTwoPins ==
    /\ last = Done("on_combined_click", "cleared", 2)
    /\ combined_permanent_annotations = <<>>

\* C6: a hover or axes-leave event on either plot leaves both pin lists, the
\* registry and the current analysis unchanged; of the program's state only the
\* transient hover markers may change.
C6_HoverLeavesPinsAlone ==
    [][ last'.op \in {"on_hover", "on_leave", "on_combined_hover", "on_combined_leave"}
        => /\ permanent_annotations' = permanent_annotations
           /\ combined_permanent_annotations' = combined_permanent_annotations
           /\ fft_results' = fft_results
           /\ results_tree' = results_tree
           /\ current_fft_data' = current_fft_data
           /\ UNCHANGED << color_index, ax_title, ax_lines, peak_labels, combined_data,
                           combined_title, combined_lines, combined_yscale >>
      ]_vars

\* C6 witness: a hover marker is shown on the single plot while both plots
\* hold pins
C6_HoverOverPins ==
    /\ last.op = "on_hover" /\ last.res = "shown" /\ hover # <<>>
    /\ permanent_annotations # <<>>
    /\ combined_permanent_annotations # <<>>

\* the locator's acceptance rule for one series: at least 2 bins, and the bin
\* nearest to x no farther from it than 2% of the frequency span
Accepts(fr, x) == Len(fr) > 1 /\ WithinTol(fr, ArgMinDist(fr, x), x)

\* the series of the combined plot that accept x, and those of them nearest to x
AcceptingSeries(cdata, x) == {k \in 1..Len(cdata) : Accepts(cdata[k].frequencies, x)}
NearestSeries(cdata, x) ==
    {k \in AcceptingSeries(cdata, x) :
        \A m \in AcceptingSeries(cdata, x) :
            Abs(cdata[k].frequencies[ArgMinDist(cdata[k].frequencies, x)] - x)
            <= Abs(cdata[m].frequencies[ArgMinDist(cdata[m].frequencies, x)] - x)}

\* the pin a left click at x builds from series e of the combined plot
PinOfSeries(e, x) ==
    [data |-> [frequency |-> e.frequencies[ArgMinDist(e.frequencies, x)],
               amplitude |-> e.amplitudes[ArgMinDist(e.frequencies, x)],
               analysis_name |-> e.display_name, color |-> e.color]]

\* C7: a left click where the locator accepts (the nearest bin of a series is
\* within 2% of its span, the boundary included) appends exactly one pin at the
\* end of the list, carrying the located bin's frequency and amplitude, also
\* when an identical pin exists; a left click where it rejects leaves the list
\* unchanged.
C7_PinAppendsOneOrNone ==
    [][ /\ last'.op = "on_click" =>
             \A e \in LeftClicks(SingleClickEvents(CursorXs)) :
                ( /\ on_click(e.inaxes, e.button, e.x, e.y, e.xlim, e.ylim)
                  /\ current_fft_data # <<>> )
                => LET fr == current_fft_data[1].frequencies
                       am == current_fft_data[1].amplitudes
                   IN IF Accepts(fr, e.x)
                      THEN permanent_annotations' =
                             Append(permanent_annotations,
                                    [frequency |-> fr[ArgMinDist(fr, e.x)],
                                     amplitude |-> am[ArgMinDist(fr, e.x)]])
                      ELSE permanent_annotations' = permanent_annotations
        /\ last'.op = "on_combined_click" =>
             \A e \in LeftClicks(CombinedClickEvents(CursorXs)) :
                ( /\ on_combined_click(e.inaxes, e.button, e.x, e.y, e.xlim, e.ylim)
                  /\ combined_data # <<>> )
                => IF /\ AcceptingSeries(combined_data, e.x) # {}
                      /\ \A k \in 1..Len(combined_data) :
                            Len(combined_data[k].frequencies) > 1
                   THEN \E k \in NearestSeries(combined_data, e.x) :
                           combined_permanent_annotations' =
                             Append(combined_permanent_annotations,
                                    PinOfSeries(combined_data[k], e.x))
                   ELSE combined_permanent_annotations' = combined_permanent_annotations
      ]_vars

\* C7 with each plot's own locator in place of the common rule: a left click
\* either leaves the list as it was or appends one pin taken from a bin of the
\* plotted data, duplicates included.
C7_AppendOnly ==
    [][ /\ last'.op = "on_click" /\ last'.res \in {"pinned", "rejected"} =>
             \/ permanent_annotations' = permanent_annotations
             \/ \E k \in 1..Len(current_fft_data[1].frequencies) :
                   permanent_annotations' =
                     Append(permanent_annotations,
                            [frequency |-> current_fft_data[1].frequencies[k],
                             amplitude |-> current_fft_data[1].amplitudes[k]])
        /\ last'.op = "on_combined_click" /\ last'.res \in {"pinned", "rejected"} =>
             \/ combined_permanent_annotations' = combined_permanent_annotations
             \/ \E m \in 1..Len(combined_data) :
                   \E k \in 1..Len(combined_data[m].frequencies) :
                      combined_permanent_annotations' =
                        Append(combined_permanent_annotations,
                               [data |-> [frequency |-> combined_data[m].frequencies[k],
                                          amplitude |-> combined_data[m].amplitudes[k],
                                          analysis_name |-> combined_data[m].display_name,
                                          color |-> combined_data[m].color]])
      ]_vars

\* the caption matches a pin count: no suffix for 0 pins, the singular phrasing
\* for 1, the plural phrasing with the exact count for 2 and more
CaptionMatches(title, n) ==
    /\ n = 0 => title.pins.kind = "none"
    /\ n = 1 => title.pins.kind = "singular"
    /\ n >= 2 => title.pins.kind = "plural" /\ title.pins.count = n

\* C8: after every pin, unpin or clear operation the caption of that plot
\* matches its pin count.
C8_CaptionMatchesPinCount ==
    /\ last.op = "on_click" /\ last.res \in {"pinned", "unpinned", "cleared"}
         => CaptionMatches(ax_title, Len(permanent_annotations))
    /\ last.op = "on_combined_click" /\ last.res \in {"pinned", "unpinned", "cleared"}
         => CaptionMatches(combined_title, Len(combined_permanent_annotations))

\* C8 witness: an unpin took the single plot from 2 pins to 1 (singular
\* caption) while the combined plot shows the plural caption for its 2 pins
C8_SingularAndPlural ==
    /\ last = Done("on_click", "unpinned", 2)
    /\ Len(permanent_annotations) = 1
    /\ ax_title.pins.kind = "singular"
    /\ Len(combined_permanent_annotations) = 2
    /\ combined_title.pins = [kind |-> "plural", count |-> 2]

\* C9: after every completed run_fft_analysis the single plot's pin list is
\* empty, and after every completed plot_combined_results the combined plot's
\* pin list is empty, whatever pins existed before.
C9_PinsClearedOnRerender ==
    /\ last.op = "run_fft_analysis" /\ last.res = "ok" => permanent_annotations = <<>>
    /\ last.op = "plot_combined_results" /\ last.res = "ok"
         => combined_permanent_annotations = <<>>

\* C9 witness: a run has completed on a plot that held 2 pins
C9_RunOverTwoPins ==
    /\ last.op = "run_fft_analysis" /\ last.res = "ok" /\ last.n = 2
    /\ permanent_annotations = <<>>

\* C10: any two distinct peaks detect_peaks_advanced returns have bin indices
\* that differ by at least min_distance (min_distance >= 1, window_size >= 1).
C10_MinDistance ==
    scan.pc = "done" =>
        \A j, k \in 1..Len(scan.peaks_idx) :
            j # k => Abs(scan.peaks_idx[j] - scan.peaks_idx[k]) >= scan.settings.min_distance

\* C10 witness: the detector has returned two peaks under min_distance 3 after
\* merging away a candidate (a local maximum above the threshold that is not
\* returned)
C10_MergedAndReturnedTwo ==
    /\ scan.pc = "done"
    /\ scan.settings.min_distance = MaxDistance
    /\ Len(scan.peaks_idx) >= 2
    /\ \E i \in ScanFirst(scan.settings)..(ScanEnd(scan.amplitude, scan.settings) - 1) :
          /\ IsMaximum(scan.amplitude, i, scan.settings.window_size)
          /\ AboveThreshold(scan.amplitude, i, scan.settings)
          /\ \A k \in 1..Len(scan.peaks_idx) : scan.peaks_idx[k] # i

\* C11: with skip_dc set, bin 0 is never among the peaks detect_peaks_advanced
\* has collected or returns, whatever the amplitude at bin 0, the threshold
\* mode, min_distance and the window size.
C11_SkipDcExcludesBinZero ==
    scan.settings.skip_dc => \A k \in 1..Len(scan.peaks_idx) : scan.peaks_idx[k] >= 1

\* C11 witness: the detector has returned peaks with skip_dc set on an array
\* whose bin 0 is higher than every other bin
C11_DcHighestAndSkipped ==
    /\ scan.pc = "done" /\ scan.settings.skip_dc
    /\ scan.peaks_idx # <<>>
    /\ \A k \in 2..Len(scan.amplitude) : scan.amplitude[1] > scan.amplitude[k]

\* C12: the threshold is computed over amplitude[start_index:] only, so with
\* skip_dc set the amplitude of the DC bin has no influence on the peaks
\* returned: the detector returns the same list when bin 0 holds any other
\* value.
C12_DcHasNoInfluence ==
    (scan.pc = "done" /\ scan.settings.skip_dc /\ scan.amplitude # <<>>) =>
        \A v \in AmpLevels :
            detect_peaks_advanced([scan.amplitude EXCEPT ![1] = v], scan.settings)
            = scan.peaks_idx

\* C12 for the modes that do compute the threshold over amplitude[start_index:]
\* (absolute: a constant; statistical: mean and deviation of the slice): there
\* the DC bin has no influence.
C12_DcHasNoInfluenceUnlessRelative ==
    (scan.pc = "done" /\ scan.settings.skip_dc /\ scan.amplitude # <<>>
     /\ scan.settings.mode # "relative") =>
        \A v \in AmpLevels :
            detect_peaks_advanced([scan.amplitude EXCEPT ![1] = v], scan.settings)
            = scan.peaks_idx

\* amplitude[i] exceeds the threshold taken over amplitude[start_index:]
ExceedsSliceThreshold(a, i, s) ==
    IF s.mode = "relative"
    THEN 100 * a[i + 1] > s.relpct * MaxSeq(SliceFrom(a, StartIdx(s)))
    ELSE AboveThreshold(a, i, s)

\* C13: every index i the detector has collected or returns lies in
\* start_index + w <= i < len(amplitude) - w, is strictly higher than each of
\* its w neighbours on either side, and is strictly above the threshold; a bin
\* of a flat top and a bin within w of either end is never returned.
C13_StrictLocalMaxima ==
    \A k \in 1..Len(scan.peaks_idx) :
        LET i == scan.peaks_idx[k]
            w == scan.settings.window_size
            a == scan.amplitude
        IN /\ StartIdx(scan.settings) + w <= i
           /\ i < Len(a) - w
           /\ \A j \in 1..w : a[i + 1] > a[i + 1 - j] /\ a[i + 1] > a[i + 1 + j]
           /\ AboveThreshold(a, i, scan.settings)
           /\ ExceedsSliceThreshold(a, i, scan.settings)

\* C13 witness: the detector, with skip_dc off, has returned a peak from an
\* array that also holds a flat top of the highest level inside the scanned
\* range and whose bin 0 is higher than its neighbour; neither is returned
C13_FlatTopAndEdgeSkipped ==
    /\ scan.pc = "done" /\ ~scan.settings.skip_dc
    /\ scan.peaks_idx # <<>>
    /\ Len(scan.amplitude) >= 2 /\ scan.amplitude[1] > scan.amplitude[2]
    /\ \E i \in ScanFirst(scan.settings)..(ScanEnd(scan.amplitude, scan.settings) - 2) :
          /\ scan.amplitude[i + 1] = 2 /\ scan.amplitude[i + 2] = 2
          /\ \A k \in 1..Len(scan.peaks_idx) : scan.peaks_idx[k] \notin {i, i + 1}

\* C14: after a completed run the labelled bins are exactly the first
\* min(peak_count, number of detected peaks) detected peaks in descending
\* amplitude order: as many as that, each a detected peak, none twice, no
\* label lower than a later one, no unlabelled peak higher than a labelled one.
\* With peak_count = 0 nothing is labelled and the detector is not called: a
\* run on data for which the detector raises still completes.
C14_LabelsAreTopPeaks ==
    (last.op = "run_fft_analysis" /\ last.res # "error") =>
        LET s == last.input[1].s
            a == Amplitudes(last.input[1].d)
        IN /\ s.peak_count = 0 => last.res = "ok" /\ peak_labels = <<>>
           /\ last.res = "ok" /\ s.peak_count > 0 =>
                LET det == detect_peaks_advanced(a, s)
                    detected == {det[k] : k \in 1..Len(det)}
                    labelled == {peak_labels[k] : k \in 1..Len(peak_labels)}
                IN /\ Len(peak_labels) =
                        (IF s.peak_count < Len(det) THEN s.peak_count ELSE Len(det))
                   /\ labelled \subseteq detected
                   /\ Cardinality(labelled) = Len(peak_labels)
                   /\ \A j, k \in 1..Len(peak_labels) :
                         j < k => a[peak_labels[j] + 1] >= a[peak_labels[k] + 1]
                   /\ \A i \in detected \ labelled, k \in 1..Len(peak_labels) :
                         a[i + 1] <= a[peak_labels[k] + 1]

\* C14 witness: a run asked for one label where the detector returns two
\* peaks, the second the higher, and that one is labelled
C14_HigherLaterPeakLabelled ==
    /\ last.op = "run_fft_analysis" /\ last.res = "ok"
    /\ last.input[1].s.peak_count = 1
    /\ detect_peaks_advanced(current_fft_data[1].amplitudes, last.input[1].s) = <<2, 4>>
    /\ peak_labels = <<4>>

\* a detection parameter outside its documented range
OutOfRange(s) ==
    \/ s.mode \notin {"relative", "absolute", "statistical"}
    \/ s.mode = "absolute" /\ s.absthr < 0
    \/ s.mode = "relative" /\ (s.relpct <= 0 \/ s.relpct > 100)
    \/ s.mode = "statistical" /\ s.statk10 < 0
    \/ s.min_distance < 1
    \/ s.window_size < 1

\* C15: a run that asks for labels with a detection parameter outside its
\* documented range shows an error, labels nothing, and still shows and stores
\* the spectrum.
C15_InvalidPolicySurfaced ==
    ( /\ last.op = "run_fft_analysis" /\ last.res # "error"
      /\ last.input[1].s.peak_count > 0
      /\ OutOfRange(last.input[1].s) ) =>
        /\ \E k \in 1..Len(last.msgs) : last.msgs[k] = "showerror"
        /\ peak_labels = <<>>
        /\ current_fft_data # <<>>
        /\ current_fft_data[1].amplitudes = Amplitudes(last.input[1].d)
        /\ ax_lines = << Curve(Frequencies(last.input[1].d), Amplitudes(last.input[1].d)) >>

\* C15, its last clause alone: no peak is labelled by a run whose detection
\* parameters are out of range.
C15_NoLabelsFromInvalidPolicy ==
    ( /\ last.op = "run_fft_analysis"
      /\ OutOfRange(last.input[1].s) ) => peak_labels = <<>>

\* a run aborted without a trace: an error was shown, and the current analysis,
\* the plot, the pins of the single plot and the registry are as before
AbortedCleanly ==
    /\ \E k \in 1..Len(last'.msgs) : last'.msgs[k] = "showerror"
    /\ last'.res = "error"
    /\ UNCHANGED << current_fft_data, ax_lines, ax_title, peak_labels,
                    permanent_annotations, fft_results, results_tree >>

\* C16: a run whose selected range is empty after NaN removal, or whose
\* sampling frequency is zero or negative, shows an error and commits nothing.
C16_InvalidInputAborts ==
    [][ ( /\ last'.op = "run_fft_analysis"
          /\ \/ DataLen(last'.input[1].d) = 0
             \/ last'.input[1].d.freq_hz <= 0 )
        => AbortedCleanly
      ]_vars

\* C16 for an empty range and for a sampling frequency of exactly zero
C16_EmptyOrZeroAborts ==
    [][ ( /\ last'.op = "run_fft_analysis"
          /\ \/ DataLen(last'.input[1].d) = 0
             \/ last'.input[1].d.freq_hz = 0 )
        => AbortedCleanly
      ]_vars

C18_HalfSpectrumAligned ==
    (current_fft_data # <<>> /\ current_fft_data[1].n_lines >= 2
     /\ current_fft_data[1].freq_hz > 0) =>
        LET cur == current_fft_data[1]
            N == cur.n_lines
        IN /\ Len(cur.frequencies) = N \div 2
           /\ Len(cur.amplitudes) = N \div 2
           /\ \A k \in 1..Len(cur.frequencies) : cur.frequencies[k] * N = (k - 1) * cur.freq_hz
           /\ cur.frequencies[1] = 0
           /\ \A k \in 2..Len(cur.frequencies) : cur.frequencies[k - 1] < cur.frequencies[k]
           /\ (last.op = "run_fft_analysis" /\ last.res = "ok") =>
                 /\ N = DataLen(last.input[1].d)
                 /\ \A k \in 1..Len(cur.amplitudes) :
                       cur.amplitudes[k] * N = 2 * AbsFft(last.input[1].d)[k]

\* C18 witness: a run on an odd number of samples, 5, has completed and stored
\* 2 bins
C18_FiveSamplesTwoBins ==
    /\ last.op = "run_fft_analysis" /\ last.res = "ok"
    /\ current_fft_data[1].n_lines = 5 /\ current_fft_data[1].freq_hz = 1200
    /\ current_fft_data[1].frequencies = <<0, 240>>
    /\ Len(current_fft_data[1].amplitudes) = 2

\* C19: on both plots, for hover and for pin, the locator accepts a cursor
\* position exactly when the nearest bin of a series is no farther from it than
\* 2% of that series' frequency span, the boundary included: it locates a
\* point at every such position, and none elsewhere.
C19_InclusiveAcceptance ==
    /\ current_fft_data # <<>> =>
          \A x \in CursorXs :
             LET fr == current_fft_data[1].frequencies
             IN Len(fr) > 1 =>
                  ( LocateSingle(current_fft_data[1], x) # <<>>
                    <=> 100 * Abs(fr[ArgMinDist(fr, x)] - x) <= 2 * (fr[Len(fr)] - fr[1]) )
    /\ \A x \in CursorXs :
          LocateCombined(combined_data, x) # <<>>
          <=> \E k \in 1..Len(combined_data) :
                 LET fr == combined_data[k].frequencies
                 IN /\ Len(fr) > 1
                    /\ 100 * Abs(fr[ArgMinDist(fr, x)] - x) <= 2 * (fr[Len(fr)] - fr[1])

\* C19 for the single plot alone
C19_InclusiveOnSinglePlot ==
    current_fft_data # <<>> =>
        \A x \in CursorXs :
           LET fr == current_fft_data[1].frequencies
           IN Len(fr) > 1 =>
                ( LocateSingle(current_fft_data[1], x) # <<>>
                  <=> 100 * Abs(fr[ArgMinDist(fr, x)] - x) <= 2 * (fr[Len(fr)] - fr[1]) )

\* the distance from x to the nearest bin of series k of the combined plot
NearestDist(cdata, k, x) ==
    Abs(cdata[k].frequencies[ArgMinDist(cdata[k].frequencies, x)] - x)

\* the earliest of the series in ks that are nearest to x
EarliestNearest(cdata, ks, x) ==
    CHOOSE k \in ks :
        /\ \A m \in ks : NearestDist(cdata, k, x) <= NearestDist(cdata, m, x)
        /\ \A m \in ks : m < k => NearestDist(cdata, m, x) > NearestDist(cdata, k, x)

\* C20: on the combined plot, at a cursor position that several series accept
\* (nearest bin within 2% of the series' span, the boundary included), the
\* point located is the nearest bin of the accepting series that is closest to
\* the cursor, the earlier series on an exact tie.
C20_NearestAcceptingSeries ==
    \A x \in CursorXs :
        Cardinality(AcceptingSeries(combined_data, x)) >= 2 =>
            LocateCombined(combined_data, x) =
                << PinOfSeries(combined_data[EarliestNearest(combined_data,
                                   AcceptingSeries(combined_data, x), x)], x).data >>

\* the series that the combined plot's own test accepts (distance < 2% of span)
StrictlyAccepting(cdata, x) ==
    {k \in 1..Len(cdata) :
        /\ Len(cdata[k].frequencies) > 1
        /\ 100 * NearestDist(cdata, k, x) < 2 * Span(cdata[k].frequencies)}

\* C20 among the series the combined plot's own test accepts: the point
\* located is that of the closest of them, the earlier on a tie.
C20_NearestOfStrictlyAccepting ==
    \A x \in CursorXs :
        StrictlyAccepting(combined_data, x) # {} =>
            LocateCombined(combined_data, x) =
                << PinOfSeries(combined_data[EarliestNearest(combined_data,
                                   StrictlyAccepting(combined_data, x), x)], x).data >>

\* the single-sided amplitudes of the samples as they are, 2/N * |fft(samples)[k]|,
\* from the cosine amplitudes of the samples
RawAmplitudes(d) ==
    [k \in 1..(DataLen(d) \div 2) |->
        IF k > Len(d.tones) THEN 0 ELSE IF k = 1 THEN 2 * d.tones[1] ELSE d.tones[k]]

\* C27: a run with the window tag "none" passes the samples to the transform as
\* they are: the amplitudes it stores are those of the raw samples, and the
\* stored analysis names the window "none".
C27_NoWindowIsIdentity ==
    (last.op = "run_fft_analysis" /\ last.res = "ok"
     /\ WindowOf(last.input[1].d) = "none") =>
        /\ current_fft_data[1].amplitudes = RawAmplitudes(last.input[1].d)
        /\ current_fft_data[1].window_func = "none"

\* C27 witness: the file whose tapered spectra leak into the neighbouring bins
\* has been analysed with the tag "none", and the two tones stand alone
C27_UntaperedRun ==
    /\ last.op = "run_fft_analysis" /\ last.res = "ok"
    /\ last.input[1].d = WindowedData("none")
    /\ current_fft_data[1].amplitudes = <<0, 0, 10, 0, 100, 0>>
    /\ \A w \in {"blackman", "hann", "hamming"} :
          WindowedData("none").tapered[w] # current_fft_data[1].amplitudes

\* the bin (0-based) of the one cosine of a pure sinusoid
PureToneBin(d) == (CHOOSE k \in 2..Len(d.tones) : d.tones[k] > 0) - 1

\* the samples are a pure sinusoid: one cosine above bin 0, nothing else, and
\* no window
IsPureTone(d) ==
    /\ WindowOf(d) = "none"
    /\ \E k \in 2..Len(d.tones) :
          d.tones[k] > 0 /\ \A m \in 1..Len(d.tones) : m # k => d.tones[m] = 0

\* C28: a completed run on a pure sinusoid of amplitude A at the centre of bin
\* k, without a window, with skip_dc, a relative threshold of 10% and at least
\* one label, k lying inside the scanned range, stores amplitude A at bin k,
\* at frequency k * fs / N, every other bin lower, and labels exactly bin k.
C28_PureToneSinglePeak ==
    (/\ last.op = "run_fft_analysis" /\ last.res = "ok"
     /\ IsPureTone(last.input[1].d)
     /\ last.input[1].s.peak_count >= 1 /\ last.input[1].s.skip_dc
     /\ last.input[1].s.mode = "relative" /\ last.input[1].s.relpct = 10
     /\ last.input[1].s.min_distance >= 1 /\ last.input[1].s.window_size >= 1
     /\ 1 + last.input[1].s.window_size <= PureToneBin(last.input[1].d)
     /\ PureToneBin(last.input[1].d)
           < DataLen(last.input[1].d) \div 2 - last.input[1].s.window_size) =>
        LET d == last.input[1].d
            k == PureToneBin(d)
            cur == current_fft_data[1]
        IN /\ peak_labels = <<k>>
           /\ cur.amplitudes[k + 1] = d.tones[k + 1]
           /\ cur.frequencies[k + 1] * DataLen(d) = k * d.freq_hz
           /\ \A m \in 1..Len(cur.amplitudes) :
                 m # k + 1 => cur.amplitudes[m] < cur.amplitudes[k + 1]

\* C28 witness: 5 periods of a cosine of amplitude 100 in 20 samples at 2000 Hz
\* have been analysed with the settings of a fresh installation and one label:
\* the label is on bin 5, 500 Hz, amplitude 100
C28_FiveHundredHertz ==
    /\ last.op = "run_fft_analysis" /\ last.res = "ok"
    /\ last.input[1].d = PureTone
    /\ last.input[1].s.window_size = 3 /\ last.input[1].s.min_distance = 10
    /\ peak_labels = <<5>>
    /\ current_fft_data[1].frequencies[6] = 500
    /\ current_fft_data[1].amplitudes[6] = 100

\* the bins held by a list of peaks
PeakSet(peaks) == {peaks[k] : k \in 1..Len(peaks)}

\* the accepted peaks closer than d bins to bin i
ClosePeaks(peaks, i, d) == {p \in PeakSet(peaks) : Abs(i - p) < d}

HasShortSeries(cdata) == \E k \in 1..Len(cdata) : Len(cdata[k].frequencies) < 2

\* C21: the locator reports nothing when no candidate series accepts the
\* cursor position, and nothing when any candidate series has fewer than 2
\* points, also when another series of the same overlay has 2 or more and
\* would accept: a hover over such an overlay leaves no marker, and a left
\* click on it sets no pin.
C21_ShortSeriesRejectsAll ==
    [][ /\ last'.op = "on_combined_hover" =>
             \A e \in HoverEvents(OverlayXs) :
                ( /\ on_combined_hover(e.inaxes, e.x)
                  /\ e.inaxes /\ combined_data # <<>>
                  /\ \/ HasShortSeries(combined_data)
                     \/ AcceptingSeries(combined_data, e.x) = {} )
                => combined_hover' = <<>>
        /\ last'.op = "on_combined_click" =>
             \A e \in LeftClicks(CombinedClickEvents(OverlayXs)) :
                ( /\ on_combined_click(e.inaxes, e.button, e.x, e.y, e.xlim, e.ylim)
                  /\ combined_data # <<>>
                  /\ \/ HasShortSeries(combined_data)
                     \/ AcceptingSeries(combined_data, e.x) = {} )
                => combined_permanent_annotations' = combined_permanent_annotations
      ]_vars

\* the point the locator of the specification reports for a cursor at x over
\* the combined plot: none when a series has fewer than 2 points or no series
\* accepts x (nearest bin within 2% of the series' span, the boundary included),
\* else the nearest bin of the earliest of the nearest accepting series
LocatedPoint(cdata, x) ==
    IF HasShortSeries(cdata) \/ AcceptingSeries(cdata, x) = {} THEN <<>>
    ELSE << PinOfSeries(cdata[EarliestNearest(cdata, AcceptingSeries(cdata, x), x)], x).data >>

\* C24: after a hover event inside the axes of a plot that holds data, the plot
\* shows exactly one transient marker, at the located point, when the locator
\* accepts the cursor position, and no marker when it does not; there is never
\* more than one marker on a plot.
C24_OneMarkerAtLocatedPoint ==
    [][ /\ Len(hover') <= 1 /\ Len(combined_hover') <= 1
        /\ last'.op = "on_combined_hover" =>
             \A e \in HoverEvents(OverlayXs) :
                ( /\ on_combined_hover(e.inaxes, e.x)
                  /\ e.inaxes /\ combined_data # <<>> )
                => combined_hover' = LocatedPoint(combined_data, e.x)
      ]_vars

\* C24, the structure alone: a hover over the combined plot leaves the marker
\* at the point the handler's own search found, or none when it found none, and
\* there is never more than one marker.
C24_MarkerFollowsHandlerSearch ==
    [][ /\ Len(hover') <= 1 /\ Len(combined_hover') <= 1
        /\ last'.op = "on_combined_hover" =>
             \A e \in HoverEvents(OverlayXs) :
                ( /\ on_combined_hover(e.inaxes, e.x)
                  /\ e.inaxes /\ combined_data # <<>> )
                => combined_hover' = LocateCombined(combined_data, e.x)
      ]_vars

\* a checked row shows an id that is not a key of the registry
StaleRows(rows, checked, results) == {k \in checked : rows[k].text \notin DOMAIN results}

\* C25: overlaying a selection that holds a row whose id is no longer in the
\* registry completes (the handler returns, the program goes on) and reports
\* the stale id to the operator in a warning box.
C25_StaleIdWarned ==
    [][ last'.op = "plot_combined_results" =>
          \A checked \in RowSets :
             ( /\ plot_combined_results(checked)
               /\ StaleRows(results_tree, checked, fft_results) # {} )
             => last'.msgs = <<"showwarning">>
      ]_vars

\* C25, without the kind of box: such an overlay completes and shows exactly
\* one message box to the operator
C25_StaleIdReported ==
    [][ last'.op = "plot_combined_results" =>
          \A checked \in RowSets :
             ( /\ plot_combined_results(checked)
               /\ StaleRows(results_tree, checked, fft_results) # {} )
             => Len(last'.msgs) = 1
      ]_vars

\* C22: on both plots the pin lookup returns the smallest list index whose pin
\* is within tolerance of the click (x within 2% of the visible x-range, y in
\* log10 space within 5% of the visible log10 y-range, raw y distance when a
\* coordinate is not positive), not the index of the closest pin, and it
\* returns no index exactly when no pin of the list is within tolerance.
C22_FirstPinWithinTolerance ==
    /\ current_fft_data # <<>> =>
          \A e \in RightClicks(SingleClickEvents(CursorXs)) :
             find_clicked_pin(permanent_annotations, current_fft_data,
                              e.x, e.y, e.xlim, e.ylim)
             = FindNear(permanent_annotations, e.x, e.y, e.xlim, e.ylim)
    /\ \A e \in RightClicks(CombinedClickEvents(CursorXs)) :
          find_combined_clicked_pin(combined_permanent_annotations,
                                    e.x, e.y, e.xlim, e.ylim)
          = FindNear(PinPoints(combined_permanent_annotations), e.x, e.y, e.xlim, e.ylim)

\* C22 where every pin amplitude and the click's y are positive: on both
\* plots the lookup returns a pin within tolerance that no pin within
\* tolerance precedes, and none exactly when no pin is within tolerance
C22_FirstMatchOnLogAxis ==
    LET Within(p, e) ==
            /\ 100 * Abs(e.x - p.frequency) <= 2 * (e.xlim[2] - e.xlim[1])
            /\ 100 * Abs(Log10(e.y) - Log10(p.amplitude))
                  <= 5 * (Log10(e.ylim[2]) - Log10(e.ylim[1]))
        First(points, e, r) ==
            IF r = 0 THEN \A k \in 1..Len(points) : ~Within(points[k], e)
            ELSE Within(points[r], e) /\ \A k \in 1..(r - 1) : ~Within(points[k], e)
        Positive(points, e) ==
            e.y > 0 /\ \A k \in 1..Len(points) : points[k].amplitude > 0
    IN /\ current_fft_data # <<>> =>
             \A e \in RightClicks(SingleClickEvents(CursorXs)) :
                Positive(permanent_annotations, e) =>
                   First(permanent_annotations, e,
                         find_clicked_pin(permanent_annotations, current_fft_data,
                                          e.x, e.y, e.xlim, e.ylim))
       /\ \A e \in RightClicks(CombinedClickEvents(CursorXs)) :
             Positive(PinPoints(combined_permanent_annotations), e) =>
                First(PinPoints(combined_permanent_annotations), e,
                      find_combined_clicked_pin(combined_permanent_annotations,
                                                e.x, e.y, e.xlim, e.ylim))

\* the raw linear test of the fallback: x within 2% of the visible x-range and
\* |y_click - pin_y| within 5% of the visible y-range
WithinLinearTol(p, e) ==
    /\ 100 * Abs(e.x - p.frequency) <= 2 * (e.xlim[2] - e.xlim[1])
    /\ 100 * Abs(e.y - p.amplitude) <= 5 * (e.ylim[2] - e.ylim[1])

\* C23: on both plots a pin stays matchable when the click's y or the pin's
\* amplitude is not positive: a right click within the raw linear tolerance of
\* such a pin finds a pin and removes one pin only, so a pin of amplitude 0 can
\* be removed on its own.
C23_NonPositivePinMatchable ==
    /\ current_fft_data # <<>> =>
          \A e \in RightClicks(SingleClickEvents(CursorXs)) :
             \A k \in 1..Len(permanent_annotations) :
                ( /\ e.y <= 0 \/ permanent_annotations[k].amplitude <= 0
                  /\ WithinLinearTol(permanent_annotations[k], e) )
                => /\ find_clicked_pin(permanent_annotations, current_fft_data,
                                       e.x, e.y, e.xlim, e.ylim) \in 1..k
                   /\ Len(RightClick(permanent_annotations, current_fft_data,
                                     e.x, e.y, e.xlim, e.ylim))
                        = Len(permanent_annotations) - 1
    /\ \A e \in RightClicks(CombinedClickEvents(CursorXs)) :
          \A k \in 1..Len(combined_permanent_annotations) :
             ( /\ e.y <= 0 \/ combined_permanent_annotations[k].data.amplitude <= 0
               /\ WithinLinearTol(combined_permanent_annotations[k].data, e) )
             => /\ find_combined_clicked_pin(combined_permanent_annotations,
                                             e.x, e.y, e.xlim, e.ylim) \in 1..k
                /\ Len(CombinedRightClick(combined_permanent_annotations,
                                          e.x, e.y, e.xlim, e.ylim))
                     = Len(combined_permanent_annotations) - 1

\* C23 on the single plot alone
C23_FallbackOnSinglePlot ==
    current_fft_data # <<>> =>
       \A e \in RightClicks(SingleClickEvents(CursorXs)) :
          \A k \in 1..Len(permanent_annotations) :
             ( /\ e.y <= 0 \/ permanent_annotations[k].amplitude <= 0
               /\ WithinLinearTol(permanent_annotations[k], e) )
             => find_clicked_pin(permanent_annotations, current_fft_data,
                                 e.x, e.y, e.xlim, e.ylim) \in 1..k

\* C30: every event handler issues at most one redraw request per event it
\* handles (hover accepted or rejected, leave, left-click pin, right-click
\* unpin or clear, run, overlay plot).
C30_AtMostOneRedraw == last.draws <= 1

\* C30 for every event but a hover that shows the marker
C30_OneRedrawUnlessMarkerShown ==
    ~(last.op \in {"on_hover", "on_combined_hover"} /\ last.res = "shown") => last.draws <= 1

\* everything the application holds in memory, the history record aside
MemoryState ==
    << current_fft_data, fft_results, results_tree, tree_serial, color_index,
       permanent_annotations, hover, ax_title, ax_lines, peak_labels, combined_data,
       combined_permanent_annotations, combined_hover, combined_title, combined_lines,
       combined_yscale, settings >>

\* C26: a failed write during a settings save or a data or plot export is
\* caught and reported in an error box, and leaves the in-memory state as it
\* was before the attempt; in particular the in-memory settings, pin colours
\* included, are those from before a failed settings save.
C26_FailedWriteLeavesMemory ==
    [][ (last'.op \in {"save_settings", "export_data", "export_plot"}
         /\ last'.res = "failed") =>
            /\ last'.msgs = <<"showerror">>
            /\ MemoryState' = MemoryState
      ]_vars

\* C26 for the exports, and the report of a failed settings save
C26_FailedWriteReported ==
    [][ /\ (last'.op \in {"save_settings", "export_data", "export_plot"}
            /\ last'.res = "failed") => last'.msgs = <<"showerror">>
        /\ (last'.op \in {"export_data", "export_plot"}) => MemoryState' = MemoryState
      ]_vars

\* C31: the display colour given to an analysis by a run is
\* palette[registry.count() % len(palette)], where registry.count() is the
\* number of entries in the registry when the run completes -- in every
\* reachable state, after removals and clear-all too.
C31_ColourFollowsRegistryCount ==
    (last.op = "run_fft_analysis" /\ last.res = "ok") =>
        current_fft_data[1].color = ColorAt(Cardinality(DOMAIN fft_results))

\* C31 as the code has it: the colour follows the number of saves made so far
C31_ColourFollowsSaveCounter ==
    (last.op = "run_fft_analysis" /\ last.res = "ok") =>
        current_fft_data[1].color = ColorAt(color_index)

\* the list is strictly ascending and adjacent entries are at least d apart
SpacedAscending(peaks, d) ==
    \A k \in 1..(Len(peaks) - 1) :
        /\ peaks[k] < peaks[k + 1]
        /\ peaks[k + 1] - peaks[k] >= d

\* C32: throughout the scan of detect_peaks_advanced the list of accepted
\* peaks is strictly ascending in bin index with every adjacent gap at least
\* min_distance; so the candidate in hand is within min_distance of at most
\* one accepted peak, the last one, and the list returned is strictly
\* ascending without duplicates.
C32_AcceptedListSpaced ==
    scan.pc \in {"scan", "done"} =>
        /\ SpacedAscending(scan.peaks_idx, scan.settings.min_distance)
        /\ \A k \in 1..Len(scan.peaks_idx) : scan.peaks_idx[k] < scan.i
        /\ Cardinality(PeakSet(scan.peaks_idx)) = Len(scan.peaks_idx)
        /\ ClosePeaks(scan.peaks_idx, scan.i, scan.settings.min_distance)
              \subseteq {scan.peaks_idx[k] : k \in {Len(scan.peaks_idx)} \ {0}}

\* C32 witness: two peaks are accepted, exactly min_distance apart, and the
\* candidate in hand (a strict local maximum above the threshold) is within
\* min_distance of the second and not of the first
C32_CandidateNearLastOfTwo ==
    /\ scan.pc = "scan"
    /\ Len(scan.peaks_idx) = 2
    /\ scan.peaks_idx[2] - scan.peaks_idx[1] = scan.settings.min_distance
    /\ scan.i < ScanEnd(scan.amplitude, scan.settings)
    /\ IsMaximum(scan.amplitude, scan.i, scan.settings.window_size)
    /\ AboveThreshold(scan.amplitude, scan.i, scan.settings)
    /\ ClosePeaks(scan.peaks_idx, scan.i, scan.settings.min_distance) = {scan.peaks_idx[2]}

\* C33: every successful save_to_results adds a new entry without overwriting
\* a saved one: the number of registry entries grows by exactly one, and every
\* entry present before the save is still present and unchanged after it --
\* whatever saves and removals came before.
C33_SaveAddsWithoutOverwriting ==
    [][ (tree_serial' # tree_serial) =>
           /\ Cardinality(DOMAIN fft_results') = Cardinality(DOMAIN fft_results) + 1
           /\ \A id \in DOMAIN fft_results :
                 id \in DOMAIN fft_results' /\ fft_results'[id] = fft_results[id]
      ]_vars

\* C33 while no row has been removed: the save adds an entry under an unused id
C33_SaveAddsWhileNothingRemoved ==
    [][ (tree_serial' # tree_serial /\ Len(results_tree) = tree_serial) =>
           /\ Cardinality(DOMAIN fft_results') = Cardinality(DOMAIN fft_results) + 1
           /\ \A id \in DOMAIN fft_results :
                 id \in DOMAIN fft_results' /\ fft_results'[id] = fft_results[id]
      ]_vars

\* the result ids the rows of the saved-results list show
RowIds == {results_tree[k].text : k \in 1..Len(results_tree)}

\* C34: the saved-results list and the registry agree: the id of every row is
\* a registry key, no two rows show the same id, and every registry key has a
\* row; so overlaying any rows of the list never looks up a missing id.
C34_RowsMatchRegistry ==
    /\ RowIds \subseteq DOMAIN fft_results
    /\ \A j, k \in 1..Len(results_tree) :
          j # k => results_tree[j].text # results_tree[k].text
    /\ DOMAIN fft_results \subseteq RowIds
    /\ ~(last.op = "plot_combined_results" /\ last.res = "error")

\* C34, the part the code keeps: every registry key has a row
C34_EveryKeyHasRow == DOMAIN fft_results \subseteq RowIds

\* a point (f, a) of a series called name and drawn in color belongs to an
\* entry of the registry
SeriesInRegistry(name, color, f, a) ==
    \E id \in DOMAIN fft_results :
        LET r == fft_results[id]
        IN /\ r.display_name = name /\ r.color = color
           /\ \E k \in 1..Len(r.frequencies) : r.frequencies[k] = f /\ r.amplitudes[k] = a

\* C35: the overlay only refers to series that are still in the registry:
\* the overlay's candidate data holds no series whose id has been removed,
\* its pin list and its hover marker no point of such a series (so a hover or
\* a left click cannot locate or pin one), and its caption matches its pin
\* count (no suffix after clear-all).
C35_OverlayWithinRegistry ==
    /\ \A k \in 1..Len(combined_data) : combined_data[k].result_id \in DOMAIN fft_results
    /\ \A k \in 1..Len(combined_permanent_annotations) :
          LET p == combined_permanent_annotations[k].data
          IN SeriesInRegistry(p.analysis_name, p.color, p.frequency, p.amplitude)
    /\ \A k \in 1..Len(combined_hover) :
          LET p == combined_hover[k]
          IN SeriesInRegistry(p.analysis_name, p.color, p.frequency, p.amplitude)
    /\ CaptionMatches(combined_title, Len(combined_permanent_annotations))

\* C36: a run that fails after rendering has begun (the detector raising on
\* the empty spectrum of a 1-sample range) leaves the view consistent: the
\* current analysis data, which hover and pin search, is the data of the
\* spectrum the plot shows, and the single-plot pin list is the one from
\* before the failed run.
C36_FailedRunLeavesViewConsistent ==
    [][ (last'.op = "run_fft_analysis" /\ last'.res = "failed") =>
           /\ ax_lines' = << Curve(current_fft_data'[1].frequencies,
                                   current_fft_data'[1].amplitudes) >>
           /\ permanent_annotations' = permanent_annotations
      ]_vars

\* C36 for the runs that complete: the plot shows the current analysis data
C36_CompletedRunShowsCurrentData ==
    (last.op = "run_fft_analysis" /\ last.res = "ok") =>
        ax_lines = << Curve(current_fft_data[1].frequencies,
                            current_fft_data[1].amplitudes) >>

\* the (frequency, amplitude) of a located point, of a marker or of a pin
PointOf(r) == << r.frequency, r.amplitude >>

OnCurve(lines, f, a) ==
    \E c \in 1..Len(lines) :
        \E k \in 1..Len(lines[c].x) : lines[c].x[k] = f /\ lines[c].y[k] = a

\* C38: every pin and every hover marker sits on a point of a plotted curve:
\* the curves leave out bin 0, and the bin a hover or a left click locates has
\* index >= 1, on both plots.
C38_MarkersOnPlottedPoints ==
    /\ \A k \in 1..Len(permanent_annotations) :
          OnCurve(ax_lines, permanent_annotations[k].frequency,
                  permanent_annotations[k].amplitude)
    /\ \A k \in 1..Len(hover) : OnCurve(ax_lines, hover[k].frequency, hover[k].amplitude)
    /\ \A k \in 1..Len(combined_permanent_annotations) :
          OnCurve(combined_lines, combined_permanent_annotations[k].data.frequency,
                  combined_permanent_annotations[k].data.amplitude)
    /\ \A k \in 1..Len(combined_hover) :
          OnCurve(combined_lines, combined_hover[k].frequency, combined_hover[k].amplitude)

\* C38 away from the left end of the axis: a hover or left click whose nearest
\* bin is not bin 0 puts its marker or pin on a plotted point
C38_OnCurveAwayFromDc ==
    /\ \A k \in 1..Len(permanent_annotations) :
          permanent_annotations[k].frequency # 0 =>
             OnCurve(ax_lines, permanent_annotations[k].frequency,
                     permanent_annotations[k].amplitude)
    /\ \A k \in 1..Len(hover) :
          hover[k].frequency # 0 => OnCurve(ax_lines, hover[k].frequency, hover[k].amplitude)
    /\ \A k \in 1..Len(combined_permanent_annotations) :
          combined_permanent_annotations[k].data.frequency # 0 =>
             OnCurve(combined_lines, combined_permanent_annotations[k].data.frequency,
                     combined_permanent_annotations[k].data.amplitude)
    /\ \A k \in 1..Len(combined_hover) :
          combined_hover[k].frequency # 0 =>
             OnCurve(combined_lines, combined_hover[k].frequency, combined_hover[k].amplitude)

\* C39: the two pin boards are independent: a click, a hover or a run of
\* run_fft_analysis on the single plot never changes the overlay's pin list,
\* the overlay's candidate data or the registry, and a click, a hover or a
\* plot_combined_results on the overlay never changes the single plot's pin
\* list or the current analysis data.
C39_BoardsIndependent ==
    [][ /\ last'.op \in {"on_click", "on_hover", "run_fft_analysis"} =>
              /\ combined_permanent_annotations' = combined_permanent_annotations
              /\ combined_data' = combined_data
              /\ fft_results' = fft_results
        /\ last'.op \in {"on_combined_click", "on_combined_hover", "plot_combined_results"} =>
              /\ permanent_annotations' = permanent_annotations
              /\ current_fft_data' = current_fft_data
      ]_vars

\* C39 witness: with pins on both plots, a hover has just shown the overlay's
\* marker
C39_OverlayHoverOverBothBoards ==
    /\ last.op = "on_combined_hover" /\ last.res = "shown"
    /\ permanent_annotations # <<>>
    /\ combined_permanent_annotations # <<>>

====
